---- MODULE Spec2Model ----
(***************************************************************************)
(* Task runtime, quota gate and progress fan-out of jexagent-backend.      *)
(*                                                                         *)
(* Nine specifications share the variables:                                *)
(*   Spec          one task: its create-task call, a submit-answers and a  *)
(*                 start-processing request on it, and its background      *)
(*                 routines (app/api/tasks.py, app/services/task_service)  *)
(*   SpecQuota     NumCalls concurrent create-task calls of one user       *)
(*   SpecSubmit    NumSubmit concurrent submit-answers calls on a task in  *)
(*                 status inquiring                                        *)
(*   SpecStart     NumStart concurrent start-processing calls on a task in *)
(*                 status ready_for_processing, and the routines           *)
(*   SpecProgress  emit_progress and emit_complete calls, the subscribers  *)
(*                 and the cleanup (app/services/socket_manager.py)        *)
(*   SpecPhases    the PhaseState of one task through the phases, the      *)
(*                 hand-off by the client and the background routine       *)
(*   SpecClients   the role calls on the AIManager and the chat calls of   *)
(*                 the three AIClients (app/services/ai_manager_fixed.py,  *)
(*                 ai_client_fixed.py)                                     *)
(*   SpecInquiryPath  a task left inquiring, one submit-answers call, the  *)
(*                 start-processing calls and the routine, under fairness  *)
(*   SpecDebateRound  the calls of one debate round of Phase 3 and the     *)
(*                 ai_message events the routine emits after it            *)
(*                                                                         *)
(* A step is one store access, one lock operation or one resumption from   *)
(* an await.  With USE_REDIS_LOCK the deployment has several processes and *)
(* any two requests interleave at every step.  Without it the deployment   *)
(* is one event loop: the synchronous store client never yields, so a      *)
(* handler keeps the loop (cpu) until it reaches an await that suspends.   *)
(***************************************************************************)
EXTENDS Integers, Sequences, FiniteSets, TLC

\* ---- bounds ----
NumSubmit == 2
NumStart == 2
NumCalls == 3
StopBy == 2
NumRooms == 2
NumSids == 1
NumEmitters == 2
MaxEmits == 2

\* ---- program constants ----
MAX_COLLABORATION_ROUNDS == 10
MAX_TASKS_IN_MEMORY == 10000
PROGRESS_MAXLEN == 1000

None == <<"none", 0>>
NoRow == [status |-> "absent", collected_info |-> "null",
          processing_state |-> None, output |-> "null"]

Tasks == 1..NumCalls
CreateReqs == {<<"create", i>> : i \in 1..NumCalls}
SubmitReqs == {<<"submit", i>> : i \in 1..NumSubmit}
StartReqs == {<<"start", i>> : i \in 1..NumStart}
Requests == CreateReqs \cup SubmitReqs \cup StartReqs
\* a background routine is named after the request that spawned it
Bg(r) == <<IF r[1] = "create" THEN "bg_create" ELSE "bg_start", r[2]>>
Workers == {Bg(r) : r \in CreateReqs \cup StartReqs}

\* uuid4(): the i-th create-task call makes task i; the submit and start
\* requests address the task of the first call
TaskOf(r) == IF r[1] \in {"create", "bg_create"} THEN r[2] ELSE 1

Terminal == {"completed", "failed"}

NoLoc == [payload |-> "none", phase1 |-> "none"]
NoGhost == [incs |-> 0, decs |-> 0, incCalls |-> 0, decCalls |-> 0,
            rpcErr |-> FALSE, decErr |-> FALSE, failed |-> FALSE, spawn |-> "none",
            cas |-> "none", metaCalls |-> 0]
NoWst == [round |-> 0, should_stop |-> FALSE, last_progress |-> 0,
          outcome |-> "none"]

VARIABLES
    USE_REDIS_LOCK,       \* task_service.py: distributed lock, several processes
    DISABLE_QUOTA_CHECK,  \* api/tasks.py: development flag
    daily_used,           \* users.daily_used of the calling user
    daily_quota,          \* users.daily_quota
    tasks,                \* the tasks table: task id -> row
    pc,                   \* position of each request handler
    loc,                  \* locals of each request handler
    resp,                 \* HTTP response of each request
    redis_lock,           \* Redis keys task:lock:<id> that exist
    _active_tasks,        \* TaskService._active_tasks: task id -> routine
    wpc,                  \* position of each background routine
    wst,                  \* locals of each background routine
    emitLog,              \* calls made on socket_manager, per task
    cpu,                  \* the handler running on the single event loop
    patience,             \* the round by which the checkers say stop
    ghost,                \* per-request record of the calls it made
    USE_REDIS,            \* socket_manager.py: USE_REDIS_CACHE
    sequence_counters,    \* SocketManager.sequence_counters
    redis_seq,            \* Redis keys seq:<task_id>
    _progress_cache,      \* the in-process progress cache, in insertion order
    redis_progress,       \* Redis lists progress:<task_id>
    _completion_cache,    \* task ids with a cached complete event
    connections,          \* SocketManager.connections: task id -> sids
    sid_to_tasks,         \* SocketManager.sid_to_tasks
    _connection_events,   \* SocketManager._connection_events
    gone,                 \* sids that have disconnected
    epc,                  \* position of each emitting coroutine
    eloc,                 \* locals of each emitting coroutine
    cleanup,              \* position of the _delayed_cleanup of each task
    received,             \* progress and complete events that reached each sid
    issued,               \* sequence ids in the order they were assigned
    completed,            \* task ids emit_complete was called for
    raised,               \* kinds of emit calls that ended in an exception
    phase_pc,             \* position of the task in the phase pipeline
    state,                \* the PhaseState (JexAgentState) of the task
    current_round,        \* the round counter of _process_task_async
    phase3_calls,         \* Phase-3 calls made by _process_task_async
    answers,              \* the answer map of the submit_answers call
    phase1_calls,         \* call_meta_ai calls made by phase1_process_answers
    phase2_calls,         \* phase2_planning calls made for the task
    workflow_rounds,      \* Phase-3 calls made by workflow.ainvoke in create_task
    phase_call,           \* the last phase call made for the task
    failure_count,        \* AIClient.failure_count of each endpoint
    streak,               \* chat calls of each endpoint that failed in a row
    ai_call,              \* the role call of the AIManager in progress
    last_chat,            \* the last chat call that ended
    round_pc,             \* position of phase3_debate_mode and of the routine after it
    in_flight,            \* roles whose call has been invoked and not returned
    round_log,            \* invocations and returns of the round, in order
    debate_round,         \* state["current_round"] of the debate
    ai_output,            \* state["ai_a_output"], state["ai_b_output"]
    ai_message            \* ai_message events the routine emitted for the round

lifeVars == <<USE_REDIS_LOCK, DISABLE_QUOTA_CHECK, daily_used, daily_quota,
              tasks, pc, loc, resp, redis_lock, _active_tasks, wpc, wst,
              emitLog, cpu, patience, ghost>>

sockVars == <<USE_REDIS, sequence_counters, redis_seq, _progress_cache,
              redis_progress, _completion_cache, connections, sid_to_tasks,
              _connection_events, gone, epc, eloc, cleanup, received, issued,
              completed, raised>>

phaseVars == <<phase_pc, state, current_round, phase3_calls, answers,
               phase1_calls, phase2_calls, workflow_rounds, phase_call>>

aiVars == <<failure_count, streak, ai_call, last_chat>>

roundVars == <<round_pc, in_flight, round_log, debate_round, ai_output,
               ai_message>>

vars == <<lifeVars, sockVars, phaseVars, aiVars, roundVars>>

\* ---------------------------------------------------------------------
\* scheduling

\* positions at which a handler or routine is suspended in an await that
\* yields to the event loop (an upstream call, wait_for_connection), or
\* has returned
Suspended == {"c_init", "s_init", "p_init", "done", "c_workflow", "s_phase1",
              "w_none", "w_new", "w_wait", "w_plan", "w_round", "w_integrate",
              "w_callback", "w_done"}

CanRun(x) == USE_REDIS_LOCK \/ cpu \in {None, x}

\* after a step of request r: the loop is kept unless r now awaits
Yield(r) ==
    cpu' = IF USE_REDIS_LOCK \/ pc'[r] \in Suspended THEN None ELSE r

YieldW(w) ==
    cpu' = IF USE_REDIS_LOCK \/ wpc'[w] \in Suspended THEN None ELSE w

Goto(r, p) == pc' = [pc EXCEPT ![r] = p]

Reply(r, code) ==
    /\ pc' = [pc EXCEPT ![r] = "done"]
    /\ resp' = [resp EXCEPT ![r] = code]

Note(r, f, v) == ghost' = [ghost EXCEPT ![r][f] = v]

\* ---------------------------------------------------------------------
\* TaskLock

LockHeld(t) == IF USE_REDIS_LOCK THEN t \in redis_lock ELSE _active_tasks[t] # None

\* a lock that is granted to every caller
acquire_task_lock_always(t) == TRUE

\* _acquire_task_lock: SET NX on the Redis key, or a look at _active_tasks
acquire_task_lock(t) == ~LockHeld(t)

\* _release_task_lock
release_task_lock(t) ==
    /\ redis_lock' = IF USE_REDIS_LOCK THEN redis_lock \ {t} ELSE redis_lock
    /\ _active_tasks' = IF USE_REDIS_LOCK THEN _active_tasks
                        ELSE [_active_tasks EXCEPT ![t] = None]

\* _start_background_task, called by request r for task t
start_background_task(r, t) ==
    IF acquire_task_lock(t)
    THEN /\ redis_lock' = IF USE_REDIS_LOCK THEN redis_lock \cup {t} ELSE redis_lock
         /\ wpc' = [wpc EXCEPT ![Bg(r)] = "w_new"]
         /\ _active_tasks' = IF USE_REDIS_LOCK THEN _active_tasks
                             ELSE [_active_tasks EXCEPT ![t] = Bg(r)]
         /\ Note(r, "spawn", "spawned")
    ELSE /\ UNCHANGED <<redis_lock, wpc, _active_tasks>>
         /\ Note(r, "spawn", "skipped")

\* ---------------------------------------------------------------------
\* quota gate (app/api/tasks.py)

\* the stored procedure increment_daily_used: the results it can give
IncrementRpc(used, quota) ==
    IF used < quota THEN {"value", "error"}
    ELSE {"null", "quota_exceeded", "error"}

\* an increment that takes the null of a refused increment for a value
increment_daily_used_null_ok(rpc) ==
    CASE rpc = "value" -> "ok"
      [] rpc = "null" -> "ok"
      [] rpc = "quota_exceeded" -> "ok"
      [] OTHER -> "raise"

\* increment_daily_used of api/tasks.py: what the caller sees
increment_daily_used(rpc) ==
    CASE rpc = "value" -> "ok"
      [] rpc = "null" -> "403"
      [] rpc = "quota_exceeded" -> "403"
      [] OTHER -> "raise"

\* the stored procedure decrement_daily_used
DecrementRpc(used) == used - 1

\* an except branch that passes every exception on without a rollback
create_task_except_no_rollback(exc) == "done"

\* create_task of api/tasks.py, lines 124-143: an HTTPException is passed
\* on, any other exception leads to the rollback and a 500
create_task_except(exc) ==
    IF exc = "HTTPException" THEN "done" ELSE "c_rollback"

\* create_task of api/tasks.py, lines 85-97: the snapshot of the user row
\* taken by the authentication dependency and the pre-check on it
CreateEnter(r) ==
    /\ pc[r] = "c_init"
    /\ CanRun(r)
    /\ IF ~DISABLE_QUOTA_CHECK /\ daily_used >= daily_quota
       THEN Reply(r, "403")
       ELSE /\ Goto(r, IF DISABLE_QUOTA_CHECK THEN "c_insert" ELSE "c_incr")
            /\ UNCHANGED resp
    /\ Yield(r)
    /\ UNCHANGED <<aiVars, roundVars, phaseVars, sockVars, USE_REDIS_LOCK, DISABLE_QUOTA_CHECK, patience, daily_used, daily_quota,
                   tasks, loc, redis_lock, _active_tasks, wpc, wst, emitLog, ghost>>

\* lines 99-104 and 124-127: the increment and what its result leads to
CreateIncrement(r) ==
    /\ pc[r] = "c_incr"
    /\ CanRun(r)
    /\ \E rpc \in IncrementRpc(daily_used, daily_quota) :
         LET out == increment_daily_used(rpc) IN
         /\ daily_used' = IF rpc = "value" THEN daily_used + 1 ELSE daily_used
         /\ IF out = "403" THEN Reply(r, "403")
            ELSE /\ Goto(r, IF out = "ok" THEN "c_insert"
                            ELSE create_task_except("Exception"))
                 /\ UNCHANGED resp
         /\ ghost' = [ghost EXCEPT ![r].incs = @ + (IF rpc = "value" THEN 1 ELSE 0),
                                   ![r].incCalls = @ + 1,
                                   ![r].rpcErr = (rpc = "error")]
    /\ Yield(r)
    /\ UNCHANGED <<aiVars, roundVars, phaseVars, sockVars, USE_REDIS_LOCK, DISABLE_QUOTA_CHECK, patience, daily_quota,
                   tasks, loc, redis_lock, _active_tasks, wpc, wst, emitLog>>

\* TaskService.create_task, lines 199-220: the insert of the task row
CreateInsert(r) ==
    /\ pc[r] = "c_insert"
    /\ CanRun(r)
    /\ \/ /\ tasks' = [tasks EXCEPT ![TaskOf(r)] =
                          [NoRow EXCEPT !.status = "inquiring"]]
          /\ Goto(r, "c_workflow")
       \/ /\ Goto(r, "c_markfailed")
          /\ UNCHANGED tasks
    /\ Yield(r)
    /\ UNCHANGED <<aiVars, roundVars, phaseVars, sockVars, USE_REDIS_LOCK, DISABLE_QUOTA_CHECK, patience, daily_used, daily_quota,
                   loc, resp, redis_lock, _active_tasks, wpc, wst, emitLog, ghost>>

\* lines 223-250: workflow.ainvoke returns (phases 0-1) or raises
CreateWorkflow(r) ==
    /\ pc[r] = "c_workflow"
    /\ CanRun(r)
    /\ \/ /\ Reply(r, "201_inquiring")
       \/ /\ Goto(r, "c_setproc")
          /\ UNCHANGED resp
       \/ /\ Goto(r, "c_markfailed")
          /\ UNCHANGED resp
    /\ Yield(r)
    /\ UNCHANGED <<aiVars, roundVars, phaseVars, sockVars, USE_REDIS_LOCK, DISABLE_QUOTA_CHECK, patience, daily_used, daily_quota,
                   tasks, loc, redis_lock, _active_tasks, wpc, wst, emitLog, ghost>>

\* lines 229-234: need_inquiry is false, the row is set to processing
CreateSetProcessing(r) ==
    /\ pc[r] = "c_setproc"
    /\ CanRun(r)
    /\ tasks' = [tasks EXCEPT ![TaskOf(r)].status = "processing"]
    /\ Goto(r, "c_spawn")
    /\ Yield(r)
    /\ UNCHANGED <<aiVars, roundVars, phaseVars, sockVars, USE_REDIS_LOCK, DISABLE_QUOTA_CHECK, patience, daily_used, daily_quota,
                   loc, resp, redis_lock, _active_tasks, wpc, wst, emitLog, ghost>>

\* lines 251-260: the background routine is started and the call returns
CreateSpawn(r) ==
    /\ pc[r] = "c_spawn"
    /\ CanRun(r)
    /\ start_background_task(r, TaskOf(r))
    /\ Reply(r, "201_processing")
    /\ Yield(r)
    /\ UNCHANGED <<aiVars, roundVars, phaseVars, sockVars, USE_REDIS_LOCK, DISABLE_QUOTA_CHECK, patience, daily_used, daily_quota,
                   tasks, loc, wst, emitLog>>

\* update(...).eq("id", task_id): an update by id alone, whatever the status
MarkFailed(t) ==
    IF tasks[t].status = "absent" THEN tasks
    ELSE [tasks EXCEPT ![t].status = "failed", ![t].output = "error"]

\* lines 262-270: the except branch of TaskService.create_task
CreateMarkFailed(r) ==
    /\ pc[r] = "c_markfailed"
    /\ CanRun(r)
    /\ tasks' = MarkFailed(TaskOf(r))
    /\ IF create_task_except("Exception") = "done"
       THEN Reply(r, "500")
       ELSE Goto(r, create_task_except("Exception")) /\ UNCHANGED resp
    /\ Note(r, "failed", TRUE)
    /\ Yield(r)
    /\ UNCHANGED <<aiVars, roundVars, phaseVars, sockVars, USE_REDIS_LOCK, DISABLE_QUOTA_CHECK, patience, daily_used, daily_quota,
                   loc, redis_lock, _active_tasks, wpc, wst, emitLog>>

\* api/tasks.py lines 127-143 with decrement_daily_used, lines 60-68: the
\* rollback; a failure of the rpc is logged and swallowed
CreateRollback(r) ==
    /\ pc[r] = "c_rollback"
    /\ CanRun(r)
    /\ \/ /\ daily_used' = DecrementRpc(daily_used)
          /\ ghost' = [ghost EXCEPT ![r].decs = @ + 1, ![r].decCalls = @ + 1]
       \/ /\ UNCHANGED daily_used
          /\ ghost' = [ghost EXCEPT ![r].decCalls = @ + 1, ![r].decErr = TRUE]
    /\ Reply(r, "500")
    /\ Yield(r)
    /\ UNCHANGED <<aiVars, roundVars, phaseVars, sockVars, USE_REDIS_LOCK, DISABLE_QUOTA_CHECK, patience, daily_quota,
                   tasks, loc, redis_lock, _active_tasks, wpc, wst, emitLog>>

CreateStep(r) ==
    \/ CreateEnter(r)
    \/ CreateIncrement(r)
    \/ CreateInsert(r)
    \/ CreateWorkflow(r)
    \/ CreateSetProcessing(r)
    \/ CreateSpawn(r)
    \/ CreateMarkFailed(r)
    \/ CreateRollback(r)

\* ---------------------------------------------------------------------
\* submit_answers (api/tasks.py and
\* TaskService.submit_answers_without_processing)

\* the request bodies: an intermediate_state the schema rejects, an empty
\* answer map with a valid state, answers with a valid state
Payloads == {"invalid", "skip", "answers"}

\* IntermediateStateSchema(**intermediate_state)
IntermediateStateSchema(payload) == payload # "invalid"

\* api/tasks.py lines 160-178: get_task and the checks on what it returned
SubmitEnter(r) ==
    /\ pc[r] = "s_init"
    /\ CanRun(r)
    /\ \E payload \in Payloads :
         LET st == tasks[TaskOf(r)].status IN
         IF st = "absent" THEN Reply(r, "404") /\ UNCHANGED loc
         ELSE IF st # "inquiring" THEN Reply(r, "400") /\ UNCHANGED loc
         ELSE /\ Goto(r, "s_select")
              /\ loc' = [loc EXCEPT ![r].payload = payload]
              /\ UNCHANGED resp
    /\ Yield(r)
    /\ UNCHANGED <<aiVars, roundVars, phaseVars, sockVars, USE_REDIS_LOCK, DISABLE_QUOTA_CHECK, patience, daily_used, daily_quota,
                   tasks, redis_lock, _active_tasks, wpc, wst, emitLog, ghost>>

\* task_service.py lines 286-311: the row is read, the state validated and
\* rebuilt, and phase1_process_answers is entered; with an empty answer map
\* it returns at once, otherwise it awaits call_meta_ai
SubmitSelect(r) ==
    /\ pc[r] = "s_select"
    /\ CanRun(r)
    /\ IF ~IntermediateStateSchema(loc[r].payload)
       THEN Goto(r, "s_markfailed") /\ UNCHANGED <<loc, ghost>>
       ELSE IF loc[r].payload = "skip"
       THEN /\ Goto(r, "s_cas")
            /\ loc' = [loc EXCEPT ![r].phase1 = "inquiry_skipped"]
            /\ UNCHANGED ghost
       ELSE /\ Goto(r, "s_phase1")
            /\ ghost' = [ghost EXCEPT ![r].metaCalls = @ + 1]
            /\ UNCHANGED loc
    /\ Yield(r)
    /\ UNCHANGED <<aiVars, roundVars, phaseVars, sockVars, USE_REDIS_LOCK, DISABLE_QUOTA_CHECK, patience, daily_used, daily_quota,
                   tasks, resp, redis_lock, _active_tasks, wpc, wst, emitLog>>

\* phase1_inquiry.py lines 235-326: the meta call returns or fails; both
\* ways phase1_process_answers returns a result
SubmitPhase1(r) ==
    /\ pc[r] = "s_phase1"
    /\ CanRun(r)
    /\ \E res \in {"inquiry_completed", "inquiry_failed"} :
         loc' = [loc EXCEPT ![r].phase1 = res]
    /\ Goto(r, "s_cas")
    /\ Yield(r)
    /\ UNCHANGED <<aiVars, roundVars, phaseVars, sockVars, USE_REDIS_LOCK, DISABLE_QUOTA_CHECK, patience, daily_used, daily_quota,
                   tasks, resp, redis_lock, _active_tasks, wpc, wst, emitLog, ghost>>

\* lines 313-334: update(...).eq("id").eq("status", "inquiring")
SubmitCas(r) ==
    /\ pc[r] = "s_cas"
    /\ CanRun(r)
    /\ IF tasks[TaskOf(r)].status = "inquiring"
       THEN /\ tasks' = [tasks EXCEPT ![TaskOf(r)] =
                 [@ EXCEPT !.status = "ready_for_processing",
                           !.collected_info =
                               IF loc[r].phase1 = "inquiry_completed"
                               THEN "extracted" ELSE "empty",
                           !.processing_state = r]]
            /\ Note(r, "cas", "won")
            /\ Reply(r, "200")
            /\ loc' = [loc EXCEPT ![r] = NoLoc]
       ELSE /\ Note(r, "cas", "lost")
            /\ Goto(r, "s_markfailed")
            /\ UNCHANGED <<tasks, resp, loc>>
    /\ Yield(r)
    /\ UNCHANGED <<aiVars, roundVars, phaseVars, sockVars, USE_REDIS_LOCK, DISABLE_QUOTA_CHECK, patience, daily_used, daily_quota,
                   redis_lock, _active_tasks, wpc, wst, emitLog>>

\* lines 336-343 and api/tasks.py lines 198-210: the except branch
SubmitMarkFailed(r) ==
    /\ pc[r] = "s_markfailed"
    /\ CanRun(r)
    /\ tasks' = MarkFailed(TaskOf(r))
    /\ Reply(r, "500")
    /\ loc' = [loc EXCEPT ![r] = NoLoc]
    /\ Yield(r)
    /\ UNCHANGED <<aiVars, roundVars, phaseVars, sockVars, USE_REDIS_LOCK, DISABLE_QUOTA_CHECK, patience, daily_used, daily_quota,
                   redis_lock, _active_tasks, wpc, wst, emitLog, ghost>>

SubmitStep(r) ==
    \/ SubmitEnter(r)
    \/ SubmitSelect(r)
    \/ SubmitPhase1(r)
    \/ SubmitCas(r)
    \/ SubmitMarkFailed(r)

\* ---------------------------------------------------------------------
\* start_processing (api/tasks.py and TaskService.start_processing)

\* the check with a task that is ready for processing refused
StartCheck_ready_refused(st) ==
    CASE st = "absent" -> "404"
      [] st = "processing" -> "200_processing"
      [] st = "completed" -> "200_completed"
      [] OTHER -> "400"

\* api/tasks.py lines 283-303: the answer for each status of the row
StartCheck(st) ==
    CASE st = "absent" -> "404"
      [] st = "processing" -> "200_processing"
      [] st = "completed" -> "200_completed"
      [] st = "ready_for_processing" -> "go"
      [] OTHER -> "400"

\* api/tasks.py lines 269-303
StartEnter(r) ==
    /\ pc[r] = "p_init"
    /\ CanRun(r)
    /\ LET st == tasks[TaskOf(r)].status IN
       IF StartCheck(st) = "go"
       THEN Goto(r, "p_cas") /\ UNCHANGED resp
       ELSE Reply(r, StartCheck(st))
    /\ Yield(r)
    /\ UNCHANGED <<aiVars, roundVars, phaseVars, sockVars, USE_REDIS_LOCK, DISABLE_QUOTA_CHECK, patience, daily_used, daily_quota,
                   tasks, loc, redis_lock, _active_tasks, wpc, wst, emitLog, ghost>>

\* task_service.py lines 351-361:
\* update(...).eq("id").eq("status", "ready_for_processing")
StartCas(r) ==
    /\ pc[r] = "p_cas"
    /\ CanRun(r)
    /\ IF tasks[TaskOf(r)].status = "ready_for_processing"
       THEN /\ tasks' = [tasks EXCEPT ![TaskOf(r)].status = "processing"]
            /\ Note(r, "cas", "won")
            /\ Goto(r, "p_spawn")
       ELSE /\ Note(r, "cas", "lost")
            /\ Goto(r, "p_markfailed")
            /\ UNCHANGED tasks
    /\ Yield(r)
    /\ UNCHANGED <<aiVars, roundVars, phaseVars, sockVars, USE_REDIS_LOCK, DISABLE_QUOTA_CHECK, patience, daily_used, daily_quota,
                   loc, resp, redis_lock, _active_tasks, wpc, wst, emitLog>>

\* lines 363-371
StartSpawn(r) ==
    /\ pc[r] = "p_spawn"
    /\ CanRun(r)
    /\ start_background_task(r, TaskOf(r))
    /\ Reply(r, "200_started")
    /\ Yield(r)
    /\ UNCHANGED <<aiVars, roundVars, phaseVars, sockVars, USE_REDIS_LOCK, DISABLE_QUOTA_CHECK, patience, daily_used, daily_quota,
                   tasks, loc, wst, emitLog>>

\* lines 373-380 and api/tasks.py lines 318-330: the except branch
StartMarkFailed(r) ==
    /\ pc[r] = "p_markfailed"
    /\ CanRun(r)
    /\ tasks' = MarkFailed(TaskOf(r))
    /\ Reply(r, "500")
    /\ Yield(r)
    /\ UNCHANGED <<aiVars, roundVars, phaseVars, sockVars, USE_REDIS_LOCK, DISABLE_QUOTA_CHECK, patience, daily_used, daily_quota,
                   loc, redis_lock, _active_tasks, wpc, wst, emitLog, ghost>>

StartStep(r) ==
    \/ StartEnter(r)
    \/ StartCas(r)
    \/ StartSpawn(r)
    \/ StartMarkFailed(r)

\* ---------------------------------------------------------------------
\* the background routine (TaskService._process_task_async)

\* ProgressCalculator.PHASES
PHASES == [evaluation |-> <<0, 10>>, inquiry |-> <<10, 20>>,
           planning |-> <<20, 40>>, collaboration |-> <<40, 70>>,
           integration |-> <<70, 90>>, finalization |-> <<90, 100>>]

\* get_progress that takes the number of rounds for the share of the
\* phase that is done
get_progress_rounds(phase, num, den) ==
    IF phase \notin DOMAIN PHASES THEN 0
    ELSE PHASES[phase][1] + (PHASES[phase][2] - PHASES[phase][1]) * num

\* ProgressCalculator.get_progress, for phase_progress = num / den:
\* int(start + (end - start) * phase_progress)
get_progress(phase, num, den) ==
    IF phase \notin DOMAIN PHASES THEN 0
    ELSE PHASES[phase][1] + ((PHASES[phase][2] - PHASES[phase][1]) * num) \div den

Max(a, b) == IF a >= b THEN a ELSE b
Min(a, b) == IF a <= b THEN a ELSE b

\* socket_manager.emit_progress / emit_ai_message / emit_error /
\* emit_complete as called by routine w
Call(kind, progress, w) == [kind |-> kind, progress |-> progress, by |-> w]

\* state["_last_progress"] = max(state["_last_progress"], progress)
Advance(w, progress) == Max(wst[w].last_progress, progress)

WorkerFrame == UNCHANGED <<aiVars, roundVars, phaseVars, sockVars, USE_REDIS_LOCK, DISABLE_QUOTA_CHECK, daily_used,
                           daily_quota, pc, loc, resp, ghost, patience>>

\* the routine runs for the first time: lines 415-420, up to the wait for
\* a subscriber
WorkerStart(w) ==
    /\ wpc[w] = "w_new"
    /\ CanRun(w)
    /\ wpc' = [wpc EXCEPT ![w] = "w_wait"]
    /\ YieldW(w)
    /\ WorkerFrame
    /\ UNCHANGED <<tasks, redis_lock, _active_tasks, wst, emitLog>>

\* lines 421-441: wait_for_connection returned; progress (planning, 0.0)
\* is emitted and phase2_planning is awaited
WorkerWaited(w) ==
    /\ wpc[w] = "w_wait"
    /\ CanRun(w)
    /\ LET p == Advance(w, get_progress("planning", 0, 1)) IN
       /\ wst' = [wst EXCEPT ![w].last_progress = p]
       /\ emitLog' = [emitLog EXCEPT ![TaskOf(w)] =
                         Append(@, Call("progress", p, w))]
    /\ wpc' = [wpc EXCEPT ![w] = "w_plan"]
    /\ YieldW(w)
    /\ WorkerFrame
    /\ UNCHANGED <<tasks, redis_lock, _active_tasks>>

\* a loop that only should_stop ends
LoopNext_uncapped(should_stop, next_round) ==
    IF should_stop THEN "w_integrate" ELSE "w_round"

\* lines 456-469: the loop test; the position after it
LoopNext(should_stop, next_round) ==
    IF should_stop \/ next_round > MAX_COLLABORATION_ROUNDS
    THEN "w_integrate" ELSE "w_round"

\* lines 504-512: progress (integration, 0.5) when the loop has ended
LoopExitCalls(w, last, next) ==
    IF next = "w_integrate"
    THEN <<Call("progress", Max(last, get_progress("integration", 1, 2)), w)>>
    ELSE <<>>

\* lines 441-469: phase2_planning returned (should_stop is False, see
\* phase2_planning.py lines 94-117) or raised; progress (collaboration,
\* 0.0), then the first round
WorkerPlanned(w) ==
    /\ wpc[w] = "w_plan"
    /\ CanRun(w)
    /\ \/ LET p == Advance(w, get_progress("collaboration", 0, 1))
              next == LoopNext(FALSE, 1)
              calls == <<Call("progress", p, w)>> \o LoopExitCalls(w, p, next)
          IN
          /\ wst' = [wst EXCEPT ![w].last_progress = calls[Len(calls)].progress,
                                ![w].should_stop = FALSE,
                                ![w].round = 0]
          /\ emitLog' = [emitLog EXCEPT ![TaskOf(w)] = @ \o calls]
          /\ wpc' = [wpc EXCEPT ![w] = next]
       \/ /\ wpc' = [wpc EXCEPT ![w] = "w_except"]
          /\ UNCHANGED <<wst, emitLog>>
    /\ YieldW(w)
    /\ WorkerFrame
    /\ UNCHANGED <<tasks, redis_lock, _active_tasks>>

\* the should_stop values the Phase-3 call of a round can return: the
\* upstream checkers say stop by round `patience` at the latest
Answers(round) == IF round >= patience THEN {TRUE} ELSE BOOLEAN

\* lines 459-502: a Phase-3 call returned with a should_stop, or raised;
\* the two AI messages and progress (collaboration, round / 10), then the
\* loop test
WorkerRound(w) ==
    /\ wpc[w] = "w_round"
    /\ CanRun(w)
    /\ \/ \E stop \in Answers(wst[w].round + 1) :
            LET round == wst[w].round + 1
                p == Advance(w, get_progress("collaboration",
                                Min(round, MAX_COLLABORATION_ROUNDS),
                                MAX_COLLABORATION_ROUNDS))
                next == LoopNext(stop, round + 1)
                calls == <<Call("ai_message", 0, w), Call("ai_message", 0, w),
                           Call("progress", p, w)>> \o LoopExitCalls(w, p, next)
            IN
            /\ wst' = [wst EXCEPT ![w].last_progress = calls[Len(calls)].progress,
                                  ![w].should_stop = stop,
                                  ![w].round = round]
            /\ emitLog' = [emitLog EXCEPT ![TaskOf(w)] = @ \o calls]
            /\ wpc' = [wpc EXCEPT ![w] = next]
       \/ /\ wpc' = [wpc EXCEPT ![w] = "w_except"]
          /\ UNCHANGED <<wst, emitLog>>
    /\ YieldW(w)
    /\ WorkerFrame
    /\ UNCHANGED <<tasks, redis_lock, _active_tasks>>

\* lines 512-517: phase5_integration returned or raised; progress 100
WorkerIntegrated(w) ==
    /\ wpc[w] = "w_integrate"
    /\ CanRun(w)
    /\ \/ /\ emitLog' = [emitLog EXCEPT ![TaskOf(w)] =
                            Append(@, Call("progress", 100, w))]
          /\ wpc' = [wpc EXCEPT ![w] = "w_persist"]
       \/ /\ wpc' = [wpc EXCEPT ![w] = "w_except"]
          /\ UNCHANGED emitLog
    /\ YieldW(w)
    /\ WorkerFrame
    /\ UNCHANGED <<tasks, redis_lock, _active_tasks, wst>>

\* lines 519-544: created_at is read and the row is updated by id to
\* completed with the final output; either store call can fail
WorkerPersist(w) ==
    /\ wpc[w] = "w_persist"
    /\ CanRun(w)
    /\ \/ /\ tasks[TaskOf(w)].status # "absent"
          /\ tasks' = [tasks EXCEPT ![TaskOf(w)].status = "completed",
                                    ![TaskOf(w)].output = "final"]
          /\ wpc' = [wpc EXCEPT ![w] = "w_complete"]
       \/ /\ wpc' = [wpc EXCEPT ![w] = "w_except"]
          /\ UNCHANGED tasks
    /\ YieldW(w)
    /\ WorkerFrame
    /\ UNCHANGED <<redis_lock, _active_tasks, wst, emitLog>>

\* lines 546-551: emit_complete, in a try that catches everything
WorkerEmitComplete(w) ==
    /\ wpc[w] = "w_complete"
    /\ CanRun(w)
    /\ emitLog' = [emitLog EXCEPT ![TaskOf(w)] =
                      Append(@, Call("complete", 0, w))]
    /\ wpc' = [wpc EXCEPT ![w] = "w_audit"]
    /\ YieldW(w)
    /\ WorkerFrame
    /\ UNCHANGED <<tasks, redis_lock, _active_tasks, wst>>

\* lines 553-564: the bulk insert of the audit rows succeeds or fails
WorkerAudit(w) ==
    /\ wpc[w] = "w_audit"
    /\ CanRun(w)
    /\ \/ /\ wpc' = [wpc EXCEPT ![w] = "w_finally"]
          /\ wst' = [wst EXCEPT ![w].outcome = "ok"]
       \/ /\ wpc' = [wpc EXCEPT ![w] = "w_except"]
          /\ UNCHANGED wst
    /\ YieldW(w)
    /\ WorkerFrame
    /\ UNCHANGED <<tasks, redis_lock, _active_tasks, emitLog>>

\* lines 566-578: except Exception: the row is updated by id to failed,
\* emit_error is called and the exception re-raised; when the update
\* itself fails its exception leaves the handler before emit_error
WorkerExcept(w) ==
    /\ wpc[w] = "w_except"
    /\ CanRun(w)
    /\ \/ /\ tasks' = MarkFailed(TaskOf(w))
          /\ emitLog' = [emitLog EXCEPT ![TaskOf(w)] =
                            Append(@, Call("error", 0, w))]
       \/ UNCHANGED <<tasks, emitLog>>
    /\ wst' = [wst EXCEPT ![w].outcome = "failed"]
    /\ wpc' = [wpc EXCEPT ![w] = "w_finally"]
    /\ YieldW(w)
    /\ WorkerFrame
    /\ UNCHANGED <<redis_lock, _active_tasks>>

\* lines 580-582: finally: _release_task_lock; the coroutine ends and its
\* done-callback is scheduled
WorkerFinally(w) ==
    /\ wpc[w] = "w_finally"
    /\ CanRun(w)
    /\ release_task_lock(TaskOf(w))
    /\ wpc' = [wpc EXCEPT ![w] = "w_callback"]
    /\ YieldW(w)
    /\ WorkerFrame
    /\ UNCHANGED <<tasks, wst, emitLog>>

\* _cleanup_task, lines 161-188: the done-callback
cleanup_task(t) ==
    IF USE_REDIS_LOCK THEN _active_tasks
    ELSE [_active_tasks EXCEPT ![t] = None]

WorkerCallback(w) ==
    /\ wpc[w] = "w_callback"
    /\ CanRun(w)
    /\ _active_tasks' = cleanup_task(TaskOf(w))
    /\ wpc' = [wpc EXCEPT ![w] = "w_done"]
    /\ YieldW(w)
    /\ WorkerFrame
    /\ UNCHANGED <<tasks, redis_lock, wst, emitLog>>

\* positions at which the routine is suspended and task.cancel() takes
\* effect: CancelledError is no Exception, so only the finally runs; a
\* task cancelled before its first step never enters the try.  At
\* w_persist the routine is suspended in emit_progress(100) and at w_audit
\* in emit_complete
Cancellable == {"w_new", "w_wait", "w_plan", "w_round", "w_integrate",
                "w_persist", "w_audit"}

\* a cancellation that is handled as a failure
WorkerCancel_as_failure(w) ==
    /\ wpc[w] \in Cancellable
    /\ CanRun(w)
    /\ wpc' = [wpc EXCEPT ![w] = IF wpc[w] = "w_new" THEN "w_callback"
                                 ELSE "w_except"]
    /\ wst' = [wst EXCEPT ![w].outcome = "cancelled"]
    /\ YieldW(w)
    /\ WorkerFrame
    /\ UNCHANGED <<tasks, redis_lock, _active_tasks, emitLog>>

WorkerCancel(w) ==
    /\ wpc[w] \in Cancellable
    /\ CanRun(w)
    /\ wpc' = [wpc EXCEPT ![w] = IF wpc[w] = "w_new" THEN "w_callback"
                                 ELSE "w_finally"]
    /\ wst' = [wst EXCEPT ![w].outcome = "cancelled"]
    /\ YieldW(w)
    /\ WorkerFrame
    /\ UNCHANGED <<tasks, redis_lock, _active_tasks, emitLog>>

WorkerStep(w) ==
    \/ WorkerStart(w)
    \/ WorkerWaited(w)
    \/ WorkerPlanned(w)
    \/ WorkerRound(w)
    \/ WorkerIntegrated(w)
    \/ WorkerPersist(w)
    \/ WorkerEmitComplete(w)
    \/ WorkerAudit(w)
    \/ WorkerExcept(w)
    \/ WorkerFinally(w)
    \/ WorkerCallback(w)
    \/ WorkerCancel(w)

\* ---------------------------------------------------------------------
\* progress fan-out (app/services/socket_manager.py)

Rooms == 1..NumRooms         \* the task ids that progress is emitted for
Sids == 1..NumSids           \* socket connections; a sid is never reused
Emitters == 1..NumEmitters   \* coroutines that call emit_progress or emit_complete

NoCounter == [present |-> FALSE, value |-> 0]
NoEloc == [kind |-> "none", task_id |-> 0, sequence_id |-> 0, cur |-> 0,
           snap |-> {}, visited |-> {}, failed_sids |-> {}, dead |-> FALSE]

LifeFrame == UNCHANGED <<lifeVars, phaseVars, aiVars, roundVars>>

\* a counter that is never advanced
get_next_sequence_id_stuck(counter) ==
    [id |-> IF counter.present THEN counter.value ELSE 0,
     counter |-> [present |-> TRUE,
                  value |-> IF counter.present THEN counter.value ELSE 0]]

\* _get_next_sequence_id, lines 127-134: the branch of the in-process
\* counter, which runs under the lock of the task without an await
get_next_sequence_id(counter) ==
    [id |-> IF counter.present THEN counter.value ELSE 0,
     counter |-> [present |-> TRUE,
                  value |-> (IF counter.present THEN counter.value ELSE 0) + 1]]

\* line 126: INCR of the key seq:<task_id>; a missing key counts as 0
redis_incr(v) == v + 1

CacheHas(cache, t) == \E i \in 1..Len(cache) : cache[i].task_id = t

\* lines 161-166: at the limit, the oldest fifth of the keys is removed
Evict(cache) ==
    IF Len(cache) >= MAX_TASKS_IN_MEMORY
    THEN SubSeq(cache, (MAX_TASKS_IN_MEMORY \div 5) + 1, Len(cache))
    ELSE cache

\* deque(maxlen=PROGRESS_MAXLEN).append
DequeAppend(items, item) ==
    IF Len(items) >= PROGRESS_MAXLEN THEN Append(Tail(items), item)
    ELSE Append(items, item)

\* lines 159-170: _progress_cache is a dict, kept here in insertion order
cache_progress(cache, t, item) ==
    LET c1 == IF CacheHas(cache, t) THEN cache
              ELSE Append(Evict(cache), [task_id |-> t, items |-> <<>>])
    IN [i \in 1..Len(c1) |->
          IF c1[i].task_id = t
          THEN [c1[i] EXCEPT !.items = DequeAppend(@, item)]
          ELSE c1[i]]

IsNot(t, e) == e.task_id # t

\* dict.pop(task_id, None)
CachePop(cache, t) == SelectSeq(cache, LAMBDA e : IsNot(t, e))

Reverse(s) == [i \in 1..Len(s) |-> s[Len(s) + 1 - i]]

\* get_full_progress, lines 196-205
get_full_progress(t) ==
    IF USE_REDIS THEN Reverse(redis_progress[t])
    ELSE IF CacheHas(_progress_cache, t)
         THEN (CHOOSE e \in {_progress_cache[i] : i \in 1..Len(_progress_cache)} :
                  e.task_id = t).items
         ELSE <<>>

Item(t, id) == [task_id |-> t, sequence_id |-> id]
Event(ev, t, id) == [ev |-> ev, task_id |-> t, sequence_id |-> id]

\* the set object connections[t] is emptied and its key deleted: the
\* iterators over it are left on an object that is no longer in the dict
Orphan(conns) ==
    [e \in Emitters |->
        IF epc[e] = "e_send" /\ connections[eloc[e].task_id] # {}
              /\ conns[eloc[e].task_id] = {}
        THEN [eloc[e] EXCEPT !.dead = TRUE]
        ELSE eloc[e]]

\* lines 175-177, 230-231: "if task_id in self.connections and
\* self.connections[task_id]" and the first element of the for loop; with
\* no subscriber emit_complete goes on to schedule the cleanup
StartDispatch(e, kind, t, id) ==
    IF connections[t] # {}
    THEN /\ \E sid \in connections[t] :
              eloc' = [eloc EXCEPT ![e] =
                         [kind |-> kind, task_id |-> t, sequence_id |-> id,
                          cur |-> sid, snap |-> connections[t], visited |-> {},
                          failed_sids |-> {}, dead |-> FALSE]]
         /\ epc' = [epc EXCEPT ![e] = "e_send"]
         /\ UNCHANGED cleanup
    ELSE /\ eloc' = [eloc EXCEPT ![e] = NoEloc]
         /\ epc' = [epc EXCEPT ![e] = "idle"]
         /\ cleanup' = IF kind = "complete"
                       THEN [cleanup EXCEPT ![t] = "sleeping"] ELSE cleanup

RECURSIVE IssuedUpTo(_)
\* the number of emit_progress calls made so far for the tasks 1..n
IssuedUpTo(n) == IF n = 0 THEN 0 ELSE Len(issued[n]) + IssuedUpTo(n - 1)

\* emit_progress without Redis, lines 140-177: the counter, the cache and
\* the start of the dispatch, with no await that suspends in between
EmitProgress(e, t) ==
    /\ ~USE_REDIS
    /\ epc[e] = "idle"
    /\ IssuedUpTo(NumRooms) < MaxEmits
    /\ LET r == get_next_sequence_id(sequence_counters[t]) IN
         /\ sequence_counters' = [sequence_counters EXCEPT ![t] = r.counter]
         /\ _progress_cache' = cache_progress(_progress_cache, t, Item(t, r.id))
         /\ issued' = [issued EXCEPT ![t] = Append(@, r.id)]
         /\ StartDispatch(e, "progress", t, r.id)
    /\ UNCHANGED <<USE_REDIS, redis_seq, redis_progress, _completion_cache,
                   connections, sid_to_tasks, _connection_events, gone,
                   received, completed, raised>>
    /\ LifeFrame

\* emit_progress with Redis, line 140: INCR seq:<task_id>
EmitProgressIncr(e, t) ==
    /\ USE_REDIS
    /\ epc[e] = "idle"
    /\ IssuedUpTo(NumRooms) < MaxEmits
    /\ redis_seq' = [redis_seq EXCEPT ![t] = redis_incr(@)]
    /\ issued' = [issued EXCEPT ![t] = Append(@, redis_seq'[t])]
    /\ eloc' = [eloc EXCEPT ![e] = [NoEloc EXCEPT !.kind = "progress",
                                                  !.task_id = t,
                                                  !.sequence_id = redis_seq'[t]]]
    /\ epc' = [epc EXCEPT ![e] = "e_lpush"]
    /\ UNCHANGED <<USE_REDIS, sequence_counters, _progress_cache, redis_progress,
                   _completion_cache, connections, sid_to_tasks,
                   _connection_events, gone, cleanup, received, completed, raised>>
    /\ LifeFrame

\* line 155: LPUSH progress:<task_id>
EmitLpush(e) ==
    /\ epc[e] = "e_lpush"
    /\ redis_progress' = [redis_progress EXCEPT ![eloc[e].task_id] =
                            <<Item(eloc[e].task_id, eloc[e].sequence_id)>> \o @]
    /\ epc' = [epc EXCEPT ![e] = "e_ltrim"]
    /\ UNCHANGED <<USE_REDIS, sequence_counters, redis_seq, _progress_cache,
                   _completion_cache, connections, sid_to_tasks,
                   _connection_events, gone, eloc, cleanup, received, issued,
                   completed, raised>>
    /\ LifeFrame

\* lines 156 and 175-177: LTRIM progress:<task_id> 0 999, then the start
\* of the dispatch
EmitLtrim(e) ==
    /\ epc[e] = "e_ltrim"
    /\ redis_progress' = [redis_progress EXCEPT ![eloc[e].task_id] =
                            SubSeq(@, 1, Min(Len(@), PROGRESS_MAXLEN))]
    /\ StartDispatch(e, "progress", eloc[e].task_id, eloc[e].sequence_id)
    /\ UNCHANGED <<USE_REDIS, sequence_counters, redis_seq, _progress_cache,
                   _completion_cache, connections, sid_to_tasks,
                   _connection_events, gone, received, issued, completed, raised>>
    /\ LifeFrame

\* emit_complete, lines 219-231: the completion is cached (without Redis)
\* and the dispatch starts
EmitComplete(e, t) ==
    /\ epc[e] = "idle"
    /\ t \notin completed
    /\ completed' = completed \cup {t}
    /\ _completion_cache' = IF USE_REDIS THEN _completion_cache
                            ELSE _completion_cache \cup {t}
    /\ StartDispatch(e, "complete", t, 0)
    /\ UNCHANGED <<USE_REDIS, sequence_counters, redis_seq, _progress_cache,
                   redis_progress, connections, sid_to_tasks,
                   _connection_events, gone, received, issued, raised>>
    /\ LifeFrame

\* "await self.sio.emit(..., room=sid)" returns or raises, and the for loop
\* asks the set iterator for the next sid (lines 177-192, 231-241).  The
\* iterator raises RuntimeError when the size of the set differs from the
\* size at the start of the loop; sids added meanwhile may or may not be
\* visited.  An emit to a sid that is gone reaches nobody.
EmitSend(e) ==
    /\ epc[e] = "e_send"
    /\ \E ok \in BOOLEAN :
         LET l == eloc[e]
             t == l.task_id
             S == connections[t]
             visited == l.visited \cup {l.cur}
             failed == IF ok \/ l.kind # "progress" THEN l.failed_sids
                       ELSE l.failed_sids \cup {l.cur}
             left == [connections EXCEPT ![t] = S \ failed]
         IN
         /\ received' = IF ok /\ l.cur \notin gone
                        THEN [received EXCEPT ![l.cur] =
                                 Append(@, Event(l.kind, t, l.sequence_id))]
                        ELSE received
         /\ IF l.dead \/ Cardinality(S) # Cardinality(l.snap)
            THEN /\ raised' = raised \cup {l.kind}
                 /\ epc' = [epc EXCEPT ![e] = "idle"]
                 /\ eloc' = [eloc EXCEPT ![e] = NoEloc]
                 /\ UNCHANGED <<connections, sid_to_tasks, cleanup>>
            ELSE \/ /\ \E sid \in S \ visited :
                         eloc' = [eloc EXCEPT ![e] =
                                    [l EXCEPT !.cur = sid, !.visited = visited,
                                              !.failed_sids = failed]]
                    /\ UNCHANGED <<epc, connections, sid_to_tasks, cleanup, raised>>
                 \/ /\ (S \cap l.snap) \ visited = {}
                    /\ epc' = [epc EXCEPT ![e] = "idle"]
                    /\ IF l.kind = "progress"
                       THEN /\ connections' = left
                            /\ sid_to_tasks' =
                                 [s \in Sids |-> IF s \in failed
                                                 THEN sid_to_tasks[s] \ {t}
                                                 ELSE sid_to_tasks[s]]
                            /\ eloc' = [Orphan(left) EXCEPT ![e] = NoEloc]
                            /\ UNCHANGED cleanup
                       ELSE /\ cleanup' = [cleanup EXCEPT ![t] = "sleeping"]
                            /\ eloc' = [eloc EXCEPT ![e] = NoEloc]
                            /\ UNCHANGED <<connections, sid_to_tasks>>
                    /\ UNCHANGED raised
    /\ UNCHANGED <<USE_REDIS, sequence_counters, redis_seq, _progress_cache,
                   redis_progress, _completion_cache, _connection_events, gone,
                   issued, completed>>
    /\ LifeFrame

\* _delayed_cleanup, lines 243-254, after the sleep: both caches are
\* popped, or the key progress:<task_id> is deleted
DelayedCleanup(t) ==
    /\ cleanup[t] = "sleeping"
    /\ IF USE_REDIS
       THEN /\ redis_progress' = [redis_progress EXCEPT ![t] = <<>>]
            /\ cleanup' = [cleanup EXCEPT ![t] = "del_seq"]
            /\ UNCHANGED <<_progress_cache, _completion_cache>>
       ELSE /\ _progress_cache' = CachePop(_progress_cache, t)
            /\ _completion_cache' = _completion_cache \ {t}
            /\ cleanup' = [cleanup EXCEPT ![t] = "done"]
            /\ UNCHANGED redis_progress
    /\ UNCHANGED <<USE_REDIS, sequence_counters, redis_seq, connections,
                   sid_to_tasks, _connection_events, gone, epc, eloc, received,
                   issued, completed, raised>>
    /\ LifeFrame

\* line 249: the key seq:<task_id> is deleted
DelayedCleanupSeq(t) ==
    /\ cleanup[t] = "del_seq"
    /\ redis_seq' = [redis_seq EXCEPT ![t] = 0]
    /\ cleanup' = [cleanup EXCEPT ![t] = "done"]
    /\ UNCHANGED <<USE_REDIS, sequence_counters, _progress_cache, redis_progress,
                   _completion_cache, connections, sid_to_tasks,
                   _connection_events, gone, epc, eloc, received, issued,
                   completed, raised>>
    /\ LifeFrame

\* join_task, lines 85-115; received keeps the progress and complete
\* events of a sid, not the joined acknowledgement
JoinTask(sid, t) ==
    /\ sid \notin gone
    /\ t \notin sid_to_tasks[sid]
    /\ connections' = [connections EXCEPT ![t] = @ \cup {sid}]
    /\ sid_to_tasks' = [sid_to_tasks EXCEPT ![sid] = @ \cup {t}]
    /\ _connection_events' = [_connection_events EXCEPT ![t] = "set"]
    /\ received' = IF ~USE_REDIS /\ t \in _completion_cache
                   THEN [received EXCEPT ![sid] = Append(@, Event("complete", t, 0))]
                   ELSE received
    /\ UNCHANGED <<USE_REDIS, sequence_counters, redis_seq, _progress_cache,
                   redis_progress, _completion_cache, gone, epc, eloc, cleanup,
                   issued, completed, raised>>
    /\ LifeFrame

\* disconnect, lines 69-83
Disconnect(sid) ==
    /\ sid \notin gone
    /\ LET left == [t \in Rooms |-> IF t \in sid_to_tasks[sid]
                                    THEN connections[t] \ {sid}
                                    ELSE connections[t]]
       IN /\ connections' = left
          /\ eloc' = Orphan(left)
    /\ sid_to_tasks' = [sid_to_tasks EXCEPT ![sid] = {}]
    /\ gone' = gone \cup {sid}
    /\ UNCHANGED <<USE_REDIS, sequence_counters, redis_seq, _progress_cache,
                   redis_progress, _completion_cache, _connection_events, epc,
                   cleanup, received, issued, completed, raised>>
    /\ LifeFrame

\* SocketManager.__init__ and the module-level caches
InitSock ==
    /\ sequence_counters = [t \in Rooms |-> NoCounter]
    /\ redis_seq = [t \in Rooms |-> 0]
    /\ _progress_cache = <<>>
    /\ redis_progress = [t \in Rooms |-> <<>>]
    /\ _completion_cache = {}
    /\ connections = [t \in Rooms |-> {}]
    /\ sid_to_tasks = [s \in Sids |-> {}]
    /\ _connection_events = [t \in Rooms |-> "absent"]
    /\ gone = {}
    /\ epc = [e \in Emitters |-> "idle"]
    /\ eloc = [e \in Emitters |-> NoEloc]
    /\ cleanup = [t \in Rooms |-> "none"]
    /\ received = [s \in Sids |-> <<>>]
    /\ issued = [t \in Rooms |-> <<>>]
    /\ completed = {}
    /\ raised = {}

\* ---------------------------------------------------------------------
\* the phase pipeline: the PhaseState of one task from create_task to the
\* final document (services/langgraph/nodes, TaskService)

\* ---- bounds of the phase pipeline ----
MaxPlanned == 12
MaxCost == 1
MaxEcho == 2
MaxQuestions == 7

\* IntermediateStateSchema.total_cost: le=1000
COST_LIMIT == 1000

\* a key the state dict does not hold (dict.get returns None)
Absent == -1

\* dict.get(key, d)
Get(v, d) == IF v = Absent THEN d ELSE v

\* dict.get(key) or d: None and 0 are both falsy
Or(v, d) == IF v = Absent \/ v = 0 THEN d ELSE v

\* an audit entry, reduced to its step and the phase that wrote it (the
\* entry of a skipped inquiry by its action)
Entry(step, phase) == [step |-> step, phase |-> phase]

\* the cost of the upstream calls of one phase, in cost units
CallCost == 0..MaxCost

\* the max_rounds values tried for the planner's JSON: 0, a value below
\* the default of 3 and one above MAX_COLLABORATION_ROUNDS
PlannerRounds == {0, 2, MaxPlanned}

\* the number of questions in meta's JSON
Questions == 0..MaxQuestions

\* the identity columns of the task's row, written once by the insert of
\* create_task
TaskRow == [task_id |-> "task", user_id |-> "user", scene |-> "scene",
            user_input |-> "input"]
IdentityKeys == {"task_id", "user_id", "scene", "user_input"}

\* dict.get(key) or {} for the info dicts: "absent" is a missing key,
\* "empty" is {} or []
OrInfo(v) == IF v = "absent" THEN "empty" ELSE v

\* create_task: initial_state
initial_state ==
    [task_id |-> TaskRow.task_id,
     user_id |-> TaskRow.user_id,
     scene |-> TaskRow.scene,
     user_input |-> TaskRow.user_input,
     provided_info |-> "absent",
     missing_info |-> "absent",
     collected_info |-> "absent",
     questions |-> Absent,
     inquiry_questions |-> Absent,
     collaboration_mode |-> "absent",
     need_inquiry |-> FALSE,
     current_round |-> Absent,
     max_rounds |-> Absent,
     should_stop |-> FALSE,
     audit_trail |-> <<>>,
     total_cost |-> 0]

\* phase0_evaluate: ok is a parsed answer, need its need_inquiry
phase0_evaluate(s, ok, need, cost) ==
    IF ok
    THEN [s EXCEPT !.need_inquiry = need,
                   !.provided_info = "evaluated",
                   !.missing_info = "evaluated",
                   !.audit_trail = Append(@, Entry(0, "evaluate")),
                   !.total_cost = @ + cost]
    ELSE [s EXCEPT !.need_inquiry = TRUE,
                   !.missing_info = "unknown"]

\* phase1_generate_inquiry, lines 78-91: the number of questions kept out
\* of the n that meta returned
clamp_questions(n) ==
    IF n < 3 THEN n + 1
    ELSE IF n > 5 THEN 5
    ELSE n

\* phase1_generate_inquiry: ok is a parsed answer of meta with n questions;
\* the except branch returns one standard question
phase1_generate_inquiry(s, ok, n, cost) ==
    IF ok
    THEN [s EXCEPT !.need_inquiry = TRUE,
                   !.questions = n,
                   !.inquiry_questions = clamp_questions(n),
                   !.provided_info = OrInfo(@),
                   !.missing_info = OrInfo(@),
                   !.collected_info = OrInfo(@),
                   !.current_round = Or(@, 0),
                   !.max_rounds = Or(@, 3),
                   !.audit_trail = Append(@, Entry(Len(@), "inquiry")),
                   !.total_cost = @ + cost]
    ELSE [s EXCEPT !.inquiry_questions = 1]

\* create_task: the intermediate_state returned to the client
IntermediateState(s) ==
    [provided_info |-> OrInfo(s.provided_info),
     missing_info |-> OrInfo(s.missing_info),
     audit_trail |-> s.audit_trail,
     total_cost |-> s.total_cost]

\* IntermediateStateSchema: total_cost ge=0, le=1000 and validate_cost
validate_cost(v) == v >= 0 /\ v <= COST_LIMIT

\* an audit trail a client can send in place of the one it was given
Forged == <<Entry(1, "forged")>>

\* the intermediate_state bodies a client sends back: provided_info is any
\* dict, missing_info any list of strings, audit_trail any list of dicts,
\* total_cost any number, and extra names a further key the body carries
\* with a value of the client's choice
Echoes(sent) ==
    [provided_info : {sent.provided_info, "forged"},
     missing_info : {sent.missing_info, "forged"},
     audit_trail : {sent.audit_trail, <<>>, Forged},
     total_cost : (-1..MaxEcho) \cup {sent.total_cost, COST_LIMIT + 1},
     extra : {"none"} \cup IdentityKeys]

\* IntermediateStateSchema.Config with every key accepted
extra_forbid_allow(echo) == TRUE

\* IntermediateStateSchema.Config: extra = "forbid"
extra_forbid(echo) == echo.extra = "none"

\* {key: value, **validated_state.dict()}: a key of the validated body
\* replaces the value written before it
Overlay(key, echo, value) == IF echo.extra = key THEN "forged" ELSE value

\* submit_answers_without_processing: the state rebuilt from the task row
\* and the validated intermediate_state
rebuild_state(echo) ==
    [initial_state EXCEPT !.task_id = Overlay("task_id", echo, TaskRow.task_id),
                          !.user_id = Overlay("user_id", echo, TaskRow.user_id),
                          !.scene = Overlay("scene", echo, TaskRow.scene),
                          !.user_input = Overlay("user_input", echo, TaskRow.user_input),
                          !.provided_info = echo.provided_info,
                          !.missing_info = echo.missing_info,
                          !.audit_trail = echo.audit_trail,
                          !.total_cost = echo.total_cost,
                          !.collected_info = "empty"]

\* the answer maps of a submit_answers call: {} or at least one answer
AnswerMaps == {"empty", "some"}

\* phase1_process_answers: the ways it returns for an answer map
Outcomes(ans) == IF ans = "empty" THEN {"skipped"} ELSE {"understood", "failed"}

\* phase1_process_answers: the call_meta_ai calls it makes (an empty map
\* returns before get_ai_manager)
understanding_calls(ans) == IF ans = "empty" THEN 0 ELSE 1

\* phase1_process_answers with an empty answer map handled as answers
phase1_process_answers_no_skip(s, outcome, cost) ==
    LET common == [s EXCEPT !.need_inquiry = FALSE,
                            !.provided_info = OrInfo(@),
                            !.missing_info = OrInfo(@),
                            !.collected_info = OrInfo(@),
                            !.current_round = Or(@, 0),
                            !.max_rounds = Or(@, 3)]
    IN  CASE outcome \in {"skipped", "understood"} ->
               [common EXCEPT !.missing_info = "empty",
                              !.collected_info = "extracted",
                              !.audit_trail = Append(@, Entry(Len(@), "inquiry")),
                              !.total_cost = @ + cost]
          [] OTHER -> [common EXCEPT !.should_stop = TRUE]

\* phase1_process_answers: "skipped" for an empty answer map, "understood"
\* for a parsed answer, "failed" for the except branch
phase1_process_answers(s, outcome, cost) ==
    LET common == [s EXCEPT !.need_inquiry = FALSE,
                            !.provided_info = OrInfo(@),
                            !.missing_info = OrInfo(@),
                            !.collected_info = OrInfo(@),
                            !.current_round = Or(@, 0),
                            !.max_rounds = Or(@, 3)]
    IN  CASE outcome = "skipped" ->
               [common EXCEPT !.audit_trail = Append(@, Entry(Len(@), "skipped"))]
          [] outcome = "understood" ->
               [common EXCEPT !.missing_info = "empty",
                              !.collected_info = "extracted",
                              !.audit_trail = Append(@, Entry(Len(@), "inquiry")),
                              !.total_cost = @ + cost]
          [] OTHER -> [common EXCEPT !.should_stop = TRUE]

\* the collaboration_mode values of the planner's JSON: the two modes and
\* any other string
PlannerModes == {"debate", "review", "parallel"}

\* phase2_planning: planned is the max_rounds and mode the
\* collaboration_mode of the planner's JSON
phase2_planning(s, ok, planned, mode, cost) ==
    IF ok
    THEN [s EXCEPT !.max_rounds = planned,
                   !.collaboration_mode = mode,
                   !.current_round = 0,
                   !.should_stop = FALSE,
                   !.audit_trail = Append(@, Entry(Len(@), "planning")),
                   !.total_cost = @ + cost]
    ELSE [s EXCEPT !.max_rounds = 3,
                   !.collaboration_mode = "debate",
                   !.current_round = 0,
                   !.should_stop = FALSE]

\* audit_trail.extend of the three entries of a collaboration round
Extend(trail) ==
    trail \o <<Entry(Len(trail), "collaboration"),
               Entry(Len(trail) + 1, "collaboration"),
               Entry(Len(trail) + 2, "collaboration")>>

\* phase3_debate_mode: go_on is has_significant_divergence in the first
\* round and has_novelty in the later ones
phase3_debate_mode(s, go_on, cost) ==
    IF Get(s.current_round, 0) = 0
    THEN [s EXCEPT !.current_round = 1,
                   !.should_stop = ~go_on,
                   !.audit_trail = Extend(@),
                   !.total_cost = @ + cost]
    ELSE LET round == Get(s.current_round, 1)
         IN  [s EXCEPT !.current_round = round + 1,
                       !.should_stop = ~go_on \/ round + 1 >= Get(s.max_rounds, 3),
                       !.audit_trail = Extend(@),
                       !.total_cost = @ + cost]

\* phase3_review_mode: go_on is needs_improvement
phase3_review_mode(s, go_on, cost) ==
    IF Get(s.current_round, 0) = 0
    THEN [s EXCEPT !.current_round = 1,
                   !.should_stop = ~go_on,
                   !.audit_trail = Extend(@),
                   !.total_cost = @ + cost]
    ELSE LET round == Get(s.current_round, 1)
         IN  [s EXCEPT !.current_round = round + 1,
                       !.should_stop = ~go_on \/ round + 1 >= Get(s.max_rounds, 3),
                       !.audit_trail = Extend(@),
                       !.total_cost = @ + cost]

\* the two collaboration modes the planner chooses from
Modes == {"debate", "review"}

\* choose_collaboration_mode and task_service.py lines 460-463: the
\* variant that is run for a collaboration_mode
Variant(mode) == IF mode = "review" THEN "review" ELSE "debate"

phase3(mode, s, go_on, cost) ==
    IF Variant(mode) = "review"
    THEN phase3_review_mode(s, go_on, cost)
    ELSE phase3_debate_mode(s, go_on, cost)

\* how an upstream call of a phase ends: its reply is parsed, its reply
\* cannot be parsed (the phase falls back to its default), or it raises
CallOutcomes == {"parsed", "unparsed", "raised"}

\* what the meta checker of a round replies: the JSON with the boolean
\* true or false, text that is no JSON, JSON without the boolean
CheckerReplies == {"true", "false", "non_json", "off_schema"}

\* the checker of a round: _check_need_improvement in review mode,
\* _check_divergence in the first debate round, _check_novelty later
Checker(variant, s) ==
    IF variant = "review" THEN "improvement"
    ELSE IF Get(s.current_round, 0) = 0 THEN "divergence"
    ELSE "novelty"

\* _check_divergence, _check_novelty, _check_need_improvement: the boolean
\* of the data they return ("missing": the key is not there)
check_data(checker, reply) ==
    CASE reply \in {"true", "false"} -> reply
      [] reply = "off_schema" -> "missing"
      [] OTHER -> IF checker = "divergence" THEN "true" ELSE "false"

\* the phases read the boolean with .get(key, default)
check_get(checker, data) ==
    IF data = "missing"
    THEN checker = "novelty"
    ELSE data = "true"

\* the last phase call made for the task
NoPhaseCall == [phase |-> "none", outcome |-> "none", cost |-> 0,
                variant |-> "none", checker |-> "none", reply |-> "none",
                go_on |-> FALSE]

\* a phase call with one upstream call
Called(phase, outcome, cost) ==
    [NoPhaseCall EXCEPT !.phase = phase, !.outcome = outcome,
                        !.cost = IF outcome \in {"parsed", "unparsed"}
                                 THEN cost ELSE 0]

\* a collaboration round that returned
Round(variant, checker, reply, cost) ==
    [phase |-> "collaboration",
     outcome |-> IF reply = "non_json" THEN "unparsed" ELSE "parsed",
     cost |-> cost, variant |-> variant, checker |-> checker, reply |-> reply,
     go_on |-> check_get(checker, check_data(checker, reply))]

\* phase5_integration
phase5_integration(s, ok, cost) ==
    IF ok
    THEN [s EXCEPT !.audit_trail = Append(@, Entry(Len(@), "integration")),
                   !.total_cost = @ + cost]
    ELSE s

PhaseFrame == UNCHANGED <<lifeVars, sockVars, aiVars, roundVars>>

\* create_task: the workflow's entry node
Evaluate ==
    /\ phase_pc = "evaluate"
    /\ \E outcome \in CallOutcomes, need \in BOOLEAN, cost \in CallCost :
          /\ state' = phase0_evaluate(state, outcome = "parsed", need, cost)
          /\ phase_call' = Called("evaluate", outcome, cost)
          /\ phase_pc' = IF state'.need_inquiry THEN "generate_inquiry"
                         ELSE "planning"
    /\ UNCHANGED <<current_round, phase3_calls, answers, phase1_calls,
                   phase2_calls, workflow_rounds>>
    /\ PhaseFrame

\* the workflow's generate_inquiry node; create_task then returns the
\* questions and the intermediate_state
GenerateInquiry ==
    /\ phase_pc = "generate_inquiry"
    /\ \E outcome \in CallOutcomes, n \in Questions, cost \in CallCost :
          /\ state' = phase1_generate_inquiry(state, outcome = "parsed", n, cost)
          /\ phase_call' = Called("inquiry", outcome, cost)
    /\ phase_pc' = "inquiring"
    /\ UNCHANGED <<current_round, phase3_calls, answers, phase1_calls,
                   phase2_calls, workflow_rounds>>
    /\ PhaseFrame

\* the workflow's planning node (the task needs no inquiry)
WorkflowPlanning ==
    /\ phase_pc = "planning"
    /\ \E outcome \in CallOutcomes, planned \in PlannerRounds,
          mode \in PlannerModes, cost \in CallCost :
          /\ state' = phase2_planning(state, outcome = "parsed", planned, mode, cost)
          /\ phase_call' = Called("planning", outcome, cost)
    /\ phase_pc' = "collaborate"
    /\ phase2_calls' = phase2_calls + 1
    /\ UNCHANGED <<current_round, phase3_calls, answers, phase1_calls,
                   workflow_rounds>>
    /\ PhaseFrame

\* the workflow's collaboration node and its edge: re-entered until
\* should_stop, then END and create_task starts the routine with the result
WorkflowCollaborate ==
    /\ phase_pc = "collaborate"
    /\ \/ \E reply \in CheckerReplies, cost \in CallCost :
             LET call == Round(Variant(state.collaboration_mode),
                               Checker(Variant(state.collaboration_mode), state),
                               reply, cost)
             IN  /\ state' = phase3(state.collaboration_mode, state, call.go_on, cost)
                 /\ phase_call' = call
                 /\ phase_pc' = IF state'.should_stop THEN "r_plan" ELSE "collaborate"
       \/ /\ phase_pc' = "failed"
          /\ phase_call' = Called("collaboration", "raised", 0)
          /\ UNCHANGED state
    /\ workflow_rounds' = workflow_rounds + 1
    /\ UNCHANGED <<current_round, phase3_calls, answers, phase1_calls,
                   phase2_calls>>
    /\ PhaseFrame

\* submit_answers_without_processing: validation of the echoed state, the
\* rebuilt state, phase1_process_answers; the result is stored as
\* processing_state and start_processing hands it to the routine
SubmitAnswers ==
    /\ phase_pc = "inquiring"
    /\ \E echo \in Echoes(IntermediateState(state)), ans \in AnswerMaps :
          IF extra_forbid(echo) /\ validate_cost(echo.total_cost)
          THEN /\ \E outcome \in Outcomes(ans), cost \in CallCost,
                     returned \in BOOLEAN :
                     /\ state' = phase1_process_answers(rebuild_state(echo),
                                                        outcome, cost)
                     /\ phase_call' =
                          Called("answers",
                                 CASE outcome = "skipped" -> "none"
                                   [] outcome = "understood" -> "parsed"
                                   [] OTHER -> IF returned THEN "unparsed"
                                               ELSE "raised",
                                 cost)
               /\ answers' = ans
               /\ phase1_calls' = phase1_calls + understanding_calls(ans)
               /\ phase_pc' = "r_plan"
          ELSE /\ phase_pc' = "failed"
               /\ phase_call' = NoPhaseCall
               /\ UNCHANGED <<state, answers, phase1_calls>>
    /\ UNCHANGED <<current_round, phase3_calls, phase2_calls, workflow_rounds>>
    /\ PhaseFrame

\* _process_task_async: state = dict(initial_result), phase2_planning,
\* state.update and current_round = 0
RoutinePlanning ==
    /\ phase_pc = "r_plan"
    /\ \E outcome \in CallOutcomes, planned \in PlannerRounds,
          mode \in PlannerModes, cost \in CallCost :
          /\ state' = phase2_planning(state, outcome = "parsed", planned, mode, cost)
          /\ phase_call' = Called("planning", outcome, cost)
    /\ current_round' = 0
    /\ phase_pc' = "r_loop"
    /\ phase2_calls' = phase2_calls + 1
    /\ UNCHANGED <<phase3_calls, answers, phase1_calls, workflow_rounds>>
    /\ PhaseFrame

\* _process_task_async: one evaluation of the while condition and, when it
\* holds and the cap is not passed, one Phase-3 call
RoutineRound ==
    /\ phase_pc = "r_loop"
    /\ LET next_round == current_round + 1
       IN  IF LoopNext(state.should_stop, next_round) = "w_round"
           THEN /\ current_round' = next_round
                /\ phase3_calls' = phase3_calls + 1
                /\ \/ \E reply \in CheckerReplies, cost \in CallCost :
                         LET call == Round(Variant(state.collaboration_mode),
                                           Checker(Variant(state.collaboration_mode),
                                                   state),
                                           reply, cost)
                         IN  /\ state' = [phase3(state.collaboration_mode, state,
                                                 call.go_on, cost)
                                            EXCEPT !.current_round = next_round]
                             /\ phase_call' = call
                             /\ phase_pc' = "r_loop"
                   \/ /\ phase_pc' = "failed"
                      /\ phase_call' = Called("collaboration", "raised", 0)
                      /\ UNCHANGED state
           ELSE /\ current_round' = IF state.should_stop THEN current_round
                                    ELSE next_round
                /\ phase_pc' = "r_integrate"
                /\ phase_call' = NoPhaseCall
                /\ UNCHANGED <<state, phase3_calls>>
    /\ UNCHANGED <<answers, phase1_calls, phase2_calls, workflow_rounds>>
    /\ PhaseFrame

\* _process_task_async: phase5_integration and state.update
RoutineIntegrate ==
    /\ phase_pc = "r_integrate"
    /\ \E outcome \in CallOutcomes, cost \in CallCost :
          /\ state' = phase5_integration(state, outcome = "parsed", cost)
          /\ phase_call' = Called("integration", outcome, cost)
    /\ phase_pc' = "done"
    /\ UNCHANGED <<current_round, phase3_calls, answers, phase1_calls,
                   phase2_calls, workflow_rounds>>
    /\ PhaseFrame

InitPhaseAt(p) ==
    /\ phase_pc = p
    /\ state = initial_state
    /\ current_round = 0
    /\ phase3_calls = 0
    /\ answers = "none"
    /\ phase1_calls = 0
    /\ phase2_calls = 0
    /\ workflow_rounds = 0
    /\ phase_call = NoPhaseCall

InitPhase == InitPhaseAt("absent")

\* ---------------------------------------------------------------------
\* the upstream clients (app/services/ai_client_fixed.py) and their manager
\* (app/services/ai_manager_fixed.py)

\* ---- bound of the upstream clients ----
MaxFailures == 6

\* retry_on_connection_error(max_retries=3, delay=1.0)
MAX_RETRIES == 3
RETRY_DELAY == 1

\* is_circuit_open: failure_count >= 5
CIRCUIT_THRESHOLD == 5

\* meta_ai (DeepSeek), ai_a (Moonshot), ai_b (Qwen)
Endpoints == {"meta", "a", "b"}

\* call_meta_ai -> _fallback_to_ai_a, call_ai_a -> _fallback_to_ai_b,
\* call_ai_b -> _fallback_to_meta_ai
Fallback(role) ==
    CASE role = "meta" -> "a"
      [] role = "a" -> "b"
      [] OTHER -> "meta"

\* the exception classes the decorator retries
TransportErrors == {"RemoteProtocolError", "ConnectError", "ReadTimeout"}

\* what one upstream request of chat does: it returns a usable response,
\* raises a transport error, raises another error, or returns a response
\* without choices or usage
Upstream == {"ok", "bad_response", "BadRequest"} \cup TransportErrors

\* the body of AIClient.chat for one upstream request: the counter after
\* it and the exception class it raises
chat(count, upstream) ==
    CASE upstream = "ok" -> [failure_count |-> 0, raised |-> "none"]
      [] upstream = "bad_response" -> [failure_count |-> 0 + 1, raised |-> "Exception"]
      [] OTHER -> [failure_count |-> count + 1, raised |-> "Exception"]

\* retry_on_connection_error.wrapper: what follows attempt number attempt
\* (from 0) of the wrapped function, given the exception class it raised
retry_on_connection_error(exc, attempt) ==
    IF exc = "none" THEN "return"
    ELSE IF exc \in TransportErrors
         THEN IF attempt < MAX_RETRIES - 1 THEN "sleep" ELSE "raise"
         ELSE "raise"

\* wait_time = delay * (2 ** attempt)
wait_time(attempt) == RETRY_DELAY * (2 ^ attempt)

is_circuit_open(count) == count >= CIRCUIT_THRESHOLD

NoCall == [stage |-> "idle", role |-> "meta", primary_open |-> FALSE,
           streak0 |-> 0, in_try |-> FALSE, invoked |-> <<>>,
           failed |-> <<>>, attempt |-> 0, upstreams |-> <<>>, sleeps |-> <<>>,
           result |-> "none"]
NoChat == [endpoint |-> "none", upstreams |-> <<>>, sleeps |-> <<>>,
           raised |-> "none", count0 |-> 0, count1 |-> 0]

AIFrame == UNCHANGED <<lifeVars, sockVars, phaseVars, roundVars>>

\* call_meta_ai / call_ai_a / call_ai_b up to the first chat call: the
\* circuit test, inside the try
CallRole(role) ==
    /\ ai_call.stage \in {"idle", "done"}
    /\ \A e \in Endpoints : failure_count[e] < MaxFailures /\ streak[e] < MaxFailures
    /\ LET open == is_circuit_open(failure_count[role])
           first == IF open THEN Fallback(role) ELSE role
       IN  ai_call' = [NoCall EXCEPT !.stage = IF open THEN "fallback" ELSE "primary",
                                     !.role = role,
                                     !.primary_open = open,
                                     !.streak0 = streak[role],
                                     !.in_try = TRUE,
                                     !.invoked = <<first>>]
    /\ UNCHANGED <<failure_count, streak, last_chat>>
    /\ AIFrame

\* one upstream request of the chat call in progress, and what the
\* decorator and the role function do with its outcome
Attempt ==
    /\ ai_call.stage \in {"primary", "fallback"}
    /\ \E upstream \in Upstream :
          LET e == ai_call.invoked[Len(ai_call.invoked)]
              r == chat(failure_count[e], upstream)
              then == retry_on_connection_error(r.raised, ai_call.attempt)
              ups == Append(ai_call.upstreams, upstream)
              ended == [endpoint |-> e, upstreams |-> ups, sleeps |-> ai_call.sleeps,
                        raised |-> r.raised,
                        count0 |-> failure_count[e], count1 |-> r.failure_count]
          IN
          /\ failure_count' = [failure_count EXCEPT ![e] = r.failure_count]
          /\ CASE then = "return" ->
                    /\ ai_call' = [ai_call EXCEPT !.stage = "done", !.result = "ok",
                                                  !.upstreams = ups]
                    /\ streak' = [streak EXCEPT ![e] = 0]
                    /\ last_chat' = ended
               [] then = "sleep" ->
                    /\ ai_call' = [ai_call EXCEPT !.attempt = @ + 1,
                                                  !.upstreams = ups,
                                                  !.sleeps = Append(@, wait_time(ai_call.attempt))]
                    /\ UNCHANGED <<streak, last_chat>>
               [] OTHER ->
                    /\ streak' = [streak EXCEPT ![e] = @ + 1]
                    /\ last_chat' = ended
                    /\ ai_call' =
                         IF ai_call.in_try
                         THEN \* except Exception of the role function: the fallback
                              [ai_call EXCEPT !.stage = "fallback",
                                              !.in_try = FALSE,
                                              !.invoked = Append(@, Fallback(ai_call.role)),
                                              !.failed = Append(@, e),
                                              !.attempt = 0,
                                              !.upstreams = <<>>,
                                              !.sleeps = <<>>]
                         ELSE [ai_call EXCEPT !.stage = "done",
                                              !.failed = Append(@, e),
                                              !.upstreams = ups,
                                              !.result = "AllUpstreamsUnavailable"]
    /\ AIFrame

\* AIClient.__init__ of the three clients
InitAI ==
    /\ failure_count = [e \in Endpoints |-> 0]
    /\ streak = [e \in Endpoints |-> 0]
    /\ ai_call = NoCall
    /\ last_chat = NoChat

\* ---------------------------------------------------------------------
\* one debate round of Phase 3 and the ai_message events that follow it

MaxDebateRounds == 3

\* the byte limit _process_task_async passes to truncate_utf8
AI_MESSAGE_BYTES == 500

\* a text is the sequence of its code points, each given by the number
\* of bytes of its UTF-8 form
Repeat(w, k) == [i \in 1..k |-> w]

\* the "..." _process_task_async appends to the truncated text
Ellipsis == Repeat(1, 3)

\* str.encode('utf-8'): a code point of w bytes gives the bytes <<w, 1>>
\* (the lead byte) to <<w, w>> (its last continuation byte)
RECURSIVE encode(_)
encode(text) ==
    IF text = <<>> THEN <<>>
    ELSE IF Len(text) = 1 THEN [j \in 1..text[1] |-> <<text[1], j>>]
    ELSE LET half == Len(text) \div 2
         IN  encode(SubSeq(text, 1, half)) \o encode(SubSeq(text, half + 1, Len(text)))

\* bytes.decode('utf-8') raises no UnicodeDecodeError: every lead byte has
\* all its continuation bytes and every continuation byte follows its
\* predecessor
decodable(b) ==
    \A i \in 1..Len(b) :
        IF b[i][2] = 1 THEN i + b[i][1] - 1 <= Len(b)
        ELSE i > 1 /\ b[i - 1] = <<b[i][1], b[i][2] - 1>>

\* bytes.decode('utf-8') of decodable bytes
decode(b) ==
    LET leads == SelectSeq(b, LAMBDA x : x[2] = 1)
    IN  [i \in 1..Len(leads) |-> leads[i][1]]

\* the while loop of truncate_utf8: drop the last byte until the bytes
\* decode
RECURSIVE truncate_loop(_)
truncate_loop(truncated) ==
    IF truncated = <<>> THEN <<>>
    ELSE IF decodable(truncated) THEN decode(truncated)
    ELSE truncate_loop(SubSeq(truncated, 1, Len(truncated) - 1))

\* truncate_utf8
truncate_utf8(text, max_bytes) ==
    IF text = <<>> THEN <<>>
    ELSE LET encoded == encode(text)
         IN  IF Len(encoded) <= max_bytes THEN text
             ELSE truncate_loop(SubSeq(encoded, 1, max_bytes))

\* the contents the roles return: empty, short, exactly at the limit, one
\* byte over it, and texts whose code point of 3 or 4 bytes lies across
\* the limit
AIOutputs ==
    { <<>>, Repeat(1, 3), Repeat(3, 2),
      Repeat(1, AI_MESSAGE_BYTES), Repeat(1, AI_MESSAGE_BYTES + 1),
      Repeat(3, (AI_MESSAGE_BYTES \div 3) + 1),
      Repeat(1, AI_MESSAGE_BYTES - 1) \o <<4>> }

\* the content _process_task_async hands to emit_ai_message
message_content(text) == truncate_utf8(text, AI_MESSAGE_BYTES) \o Ellipsis

Invoke(role) == [ev |-> "invoke", role |-> role]
Return(role) == [ev |-> "return", role |-> role]

InitRound ==
    /\ round_pc = "start"
    /\ in_flight = {}
    /\ round_log = <<>>
    /\ debate_round = 0
    /\ ai_output = [ai_a |-> <<>>, ai_b |-> <<>>]
    /\ ai_message = {}

RoundFrame == UNCHANGED <<lifeVars, sockVars, phaseVars, aiVars>>

\* phase3_debate_mode up to its first await: _call_ai_a in the first
\* round, _debate_response of ai_a in the later ones
InvokeA ==
    /\ round_pc = "start"
    /\ debate_round < MaxDebateRounds
    /\ round_pc' = "await_a"
    /\ in_flight' = in_flight \cup {"ai_a"}
    /\ round_log' = <<Invoke("ai_a")>>
    /\ ai_message' = {}
    /\ UNCHANGED <<debate_round, ai_output>>
    /\ RoundFrame

\* the call of A returns and the coroutine goes on to its next await, the
\* call of B; a call that raises ends phase3_debate_mode
ReturnA ==
    /\ round_pc = "await_a"
    /\ \/ \E content \in AIOutputs :
            /\ round_pc' = "await_b"
            /\ in_flight' = (in_flight \ {"ai_a"}) \cup {"ai_b"}
            /\ round_log' = round_log \o <<Return("ai_a"), Invoke("ai_b")>>
            /\ ai_output' = [ai_output EXCEPT !.ai_a = content]
       \/ /\ round_pc' = "raised"
          /\ in_flight' = in_flight \ {"ai_a"}
          /\ round_log' = Append(round_log, Return("ai_a"))
          /\ UNCHANGED ai_output
    /\ UNCHANGED <<debate_round, ai_message>>
    /\ RoundFrame

\* the call of B returns and the coroutine goes on to _check_divergence
\* or _check_novelty
ReturnB ==
    /\ round_pc = "await_b"
    /\ \/ \E content \in AIOutputs :
            /\ round_pc' = "await_meta"
            /\ in_flight' = (in_flight \ {"ai_b"}) \cup {"meta"}
            /\ round_log' = round_log \o <<Return("ai_b"), Invoke("meta")>>
            /\ ai_output' = [ai_output EXCEPT !.ai_b = content]
       \/ /\ round_pc' = "raised"
          /\ in_flight' = in_flight \ {"ai_b"}
          /\ round_log' = Append(round_log, Return("ai_b"))
          /\ UNCHANGED ai_output
    /\ UNCHANGED <<debate_round, ai_message>>
    /\ RoundFrame

\* the checker returns, phase3_debate_mode returns its dict and
\* _process_task_async updates the state with it
ReturnMeta ==
    /\ round_pc = "await_meta"
    /\ \E reply \in CheckerReplies :
        LET checker == Checker("debate", [current_round |-> debate_round])
            go_on == check_get(checker, check_data(checker, reply))
        IN  /\ round_pc' = IF go_on THEN "emit_a" ELSE "emit_a_last"
    /\ in_flight' = in_flight \ {"meta"}
    /\ round_log' = Append(round_log, Return("meta"))
    /\ debate_round' = debate_round + 1
    /\ UNCHANGED <<ai_output, ai_message>>
    /\ RoundFrame

\* _process_task_async: the ai_message of A
EmitA ==
    /\ round_pc \in {"emit_a", "emit_a_last"}
    /\ round_pc' = IF round_pc = "emit_a" THEN "emit_b" ELSE "emit_b_last"
    /\ ai_message' =
           IF ai_output.ai_a # <<>>
           THEN ai_message \cup {[actor |-> "Kimi", text |-> ai_output.ai_a,
                                  content |-> message_content(ai_output.ai_a)]}
           ELSE ai_message
    /\ UNCHANGED <<in_flight, round_log, debate_round, ai_output>>
    /\ RoundFrame

\* _process_task_async: the ai_message of B, and back to the loop test
EmitB ==
    /\ round_pc \in {"emit_b", "emit_b_last"}
    /\ round_pc' = IF round_pc = "emit_b" THEN "start" ELSE "stopped"
    /\ ai_message' =
           IF ai_output.ai_b # <<>>
           THEN ai_message \cup {[actor |-> "Qwen", text |-> ai_output.ai_b,
                                  content |-> message_content(ai_output.ai_b)]}
           ELSE ai_message
    /\ UNCHANGED <<in_flight, round_log, debate_round, ai_output>>
    /\ RoundFrame

\* ---------------------------------------------------------------------
\* the specification of one task

\* the quota of the calling user
Quota == NumCalls - 2

InitCommon ==
    /\ USE_REDIS_LOCK \in BOOLEAN
    /\ daily_used = 0
    /\ daily_quota = Quota
    /\ tasks = [t \in Tasks |-> NoRow]
    /\ loc = [r \in Requests |-> NoLoc]
    /\ resp = [r \in Requests |-> "none"]
    /\ redis_lock = {}
    /\ _active_tasks = [t \in Tasks |-> None]
    /\ wpc = [w \in Workers |-> "w_none"]
    /\ wst = [w \in Workers |-> NoWst]
    /\ emitLog = [t \in Tasks |-> <<>>]
    /\ cpu = None
    /\ ghost = [r \in Requests |-> NoGhost]

Init ==
    /\ InitCommon
    /\ InitSock
    /\ InitPhase
    /\ InitAI
    /\ InitRound
    /\ USE_REDIS = FALSE
    /\ DISABLE_QUOTA_CHECK = FALSE
    /\ patience = StopBy
    /\ pc = [r \in Requests |->
                CASE r = <<"create", 1>> -> "c_init"
                  [] r = <<"submit", 1>> -> "s_init"
                  [] r = <<"start", 1>> -> "p_init"
                  [] OTHER -> "absent"]

Next ==
    \/ \E r \in CreateReqs : CreateStep(r)
    \/ \E r \in SubmitReqs : SubmitStep(r)
    \/ \E r \in StartReqs : StartStep(r)
    \/ \E w \in Workers : WorkerStep(w)

Spec == Init /\ [][Next]_vars

\* ---------------------------------------------------------------------
\* the specification of the quota gate: NumCalls create-task calls

InitQuota ==
    /\ InitCommon
    /\ InitSock
    /\ InitPhase
    /\ InitAI
    /\ InitRound
    /\ USE_REDIS = FALSE
    /\ DISABLE_QUOTA_CHECK \in BOOLEAN
    /\ patience = StopBy
    /\ pc = [r \in Requests |-> IF r[1] = "create" THEN "c_init" ELSE "absent"]

NextQuota == \E r \in CreateReqs : CreateStep(r)

SpecQuota == InitQuota /\ [][NextQuota]_vars

\* ---------------------------------------------------------------------
\* the specification of the submit_answers calls on a task that create_task
\* left in status inquiring

InitSubmit ==
    /\ InitSock
    /\ InitPhase
    /\ InitAI
    /\ InitRound
    /\ USE_REDIS = FALSE
    /\ USE_REDIS_LOCK \in BOOLEAN
    /\ DISABLE_QUOTA_CHECK = FALSE
    /\ patience = StopBy
    /\ daily_used = 1
    /\ daily_quota = Quota
    /\ tasks = [t \in Tasks |->
                  IF t = 1 THEN [NoRow EXCEPT !.status = "inquiring"] ELSE NoRow]
    /\ loc = [r \in Requests |-> NoLoc]
    /\ resp = [r \in Requests |->
                 IF r = <<"create", 1>> THEN "201_inquiring" ELSE "none"]
    /\ redis_lock = {}
    /\ _active_tasks = [t \in Tasks |-> None]
    /\ wpc = [w \in Workers |-> "w_none"]
    /\ wst = [w \in Workers |-> NoWst]
    /\ emitLog = [t \in Tasks |-> <<>>]
    /\ cpu = None
    /\ ghost = [r \in Requests |->
                  IF r = <<"create", 1>>
                  THEN [NoGhost EXCEPT !.incs = 1, !.incCalls = 1]
                  ELSE NoGhost]
    /\ pc = [r \in Requests |->
                CASE r = <<"create", 1>> -> "done"
                  [] r[1] = "submit" -> "s_init"
                  [] OTHER -> "absent"]

NextSubmit == \E r \in SubmitReqs : SubmitStep(r)

SpecSubmit == InitSubmit /\ [][NextSubmit]_vars

\* ---------------------------------------------------------------------
\* the specification of the start_processing calls on a task whose answers
\* have been submitted (status ready_for_processing), and of its routines

InitStart ==
    /\ InitSock
    /\ InitPhase
    /\ InitAI
    /\ InitRound
    /\ USE_REDIS = FALSE
    /\ USE_REDIS_LOCK \in BOOLEAN
    /\ DISABLE_QUOTA_CHECK = FALSE
    /\ patience = StopBy
    /\ daily_used = 1
    /\ daily_quota = Quota
    /\ tasks = [t \in Tasks |->
                  IF t = 1
                  THEN [status |-> "ready_for_processing",
                        collected_info |-> "empty",
                        processing_state |-> <<"submit", 1>>,
                        output |-> "null"]
                  ELSE NoRow]
    /\ loc = [r \in Requests |-> NoLoc]
    /\ resp = [r \in Requests |->
                 CASE r = <<"create", 1>> -> "201_inquiring"
                   [] r = <<"submit", 1>> -> "200"
                   [] OTHER -> "none"]
    /\ redis_lock = {}
    /\ _active_tasks = [t \in Tasks |-> None]
    /\ wpc = [w \in Workers |-> "w_none"]
    /\ wst = [w \in Workers |-> NoWst]
    /\ emitLog = [t \in Tasks |-> <<>>]
    /\ cpu = None
    /\ ghost = [r \in Requests |->
                  CASE r = <<"create", 1>> ->
                         [NoGhost EXCEPT !.incs = 1, !.incCalls = 1]
                    [] r = <<"submit", 1>> -> [NoGhost EXCEPT !.cas = "won"]
                    [] OTHER -> NoGhost]
    /\ pc = [r \in Requests |->
                CASE r = <<"create", 1>> -> "done"
                  [] r = <<"submit", 1>> -> "done"
                  [] r[1] = "start" -> "p_init"
                  [] OTHER -> "absent"]

NextStart ==
    \/ \E r \in StartReqs : StartStep(r)
    \/ \E w \in Workers : WorkerStep(w)

SpecStart == InitStart /\ [][NextStart]_vars

\* ---------------------------------------------------------------------
\* the specification of the progress fan-out: emit_progress and
\* emit_complete calls, the subscribers and the delayed cleanup

InitProgress ==
    /\ InitCommon
    /\ USE_REDIS_LOCK = FALSE
    /\ DISABLE_QUOTA_CHECK = FALSE
    /\ patience = StopBy
    /\ pc = [r \in Requests |-> "absent"]
    /\ InitSock
    /\ InitPhase
    /\ InitAI
    /\ InitRound
    /\ USE_REDIS \in BOOLEAN

NextProgress ==
    \/ \E e \in Emitters, t \in Rooms : EmitProgress(e, t)
    \/ \E e \in Emitters, t \in Rooms : EmitProgressIncr(e, t)
    \/ \E e \in Emitters : EmitLpush(e)
    \/ \E e \in Emitters : EmitLtrim(e)
    \/ \E e \in Emitters, t \in Rooms : EmitComplete(e, t)
    \/ \E e \in Emitters : EmitSend(e)
    \/ \E t \in Rooms : DelayedCleanup(t)
    \/ \E t \in Rooms : DelayedCleanupSeq(t)
    \/ \E sid \in Sids, t \in Rooms : JoinTask(sid, t)
    \/ \E sid \in Sids : Disconnect(sid)

SpecProgress == InitProgress /\ [][NextProgress]_vars

\* ---------------------------------------------------------------------
\* the specification of the inquiry path: create_task has returned
\* inquiring for task 1; one submit_answers call, the start_processing
\* calls and the routine they start, every coroutine scheduled fairly by
\* the event loop

InitInquiryPath ==
    /\ InitSock
    /\ InitPhase
    /\ InitAI
    /\ InitRound
    /\ USE_REDIS = FALSE
    /\ USE_REDIS_LOCK \in BOOLEAN
    /\ DISABLE_QUOTA_CHECK = FALSE
    /\ patience \in 1..StopBy
    /\ daily_used = 1
    /\ daily_quota = Quota
    /\ tasks = [t \in Tasks |->
                  IF t = 1 THEN [NoRow EXCEPT !.status = "inquiring"] ELSE NoRow]
    /\ loc = [r \in Requests |-> NoLoc]
    /\ resp = [r \in Requests |->
                 IF r = <<"create", 1>> THEN "201_inquiring" ELSE "none"]
    /\ redis_lock = {}
    /\ _active_tasks = [t \in Tasks |-> None]
    /\ wpc = [w \in Workers |-> "w_none"]
    /\ wst = [w \in Workers |-> NoWst]
    /\ emitLog = [t \in Tasks |-> <<>>]
    /\ cpu = None
    /\ ghost = [r \in Requests |->
                  IF r = <<"create", 1>>
                  THEN [NoGhost EXCEPT !.incs = 1, !.incCalls = 1]
                  ELSE NoGhost]
    /\ pc = [r \in Requests |->
                CASE r = <<"create", 1>> -> "done"
                  [] r = <<"submit", 1>> -> "s_init"
                  [] r[1] = "start" -> "p_init"
                  [] OTHER -> "absent"]

NextInquiryPath ==
    \/ SubmitStep(<<"submit", 1>>)
    \/ \E r \in StartReqs : StartStep(r)
    \/ \E w \in Workers : WorkerStep(w)

\* asyncio runs every coroutine that is ready: the handlers and the routine
FairInquiryPath ==
    /\ WF_vars(SubmitStep(<<"submit", 1>>))
    /\ \A r \in StartReqs : WF_vars(StartStep(r))
    /\ \A w \in Workers : WF_vars(WorkerStep(w))

SpecInquiryPath == InitInquiryPath /\ [][NextInquiryPath]_vars /\ FairInquiryPath

\* ---------------------------------------------------------------------
\* the specification of the phase pipeline of one task

InitPhases ==
    /\ InitCommon
    /\ USE_REDIS_LOCK = FALSE
    /\ DISABLE_QUOTA_CHECK = FALSE
    /\ patience = StopBy
    /\ pc = [r \in Requests |-> "absent"]
    /\ InitSock
    /\ USE_REDIS = FALSE
    /\ InitPhaseAt("evaluate")
    /\ InitAI
    /\ InitRound

NextPhases ==
    \/ Evaluate
    \/ GenerateInquiry
    \/ WorkflowPlanning
    \/ WorkflowCollaborate
    \/ SubmitAnswers
    \/ RoutinePlanning
    \/ RoutineRound
    \/ RoutineIntegrate

SpecPhases == InitPhases /\ [][NextPhases]_vars

\* ---------------------------------------------------------------------
\* the specification of the role calls on the AIManager

InitClients ==
    /\ InitCommon
    /\ USE_REDIS_LOCK = FALSE
    /\ DISABLE_QUOTA_CHECK = FALSE
    /\ patience = StopBy
    /\ pc = [r \in Requests |-> "absent"]
    /\ InitSock
    /\ USE_REDIS = FALSE
    /\ InitPhaseAt("absent")
    /\ InitAI
    /\ InitRound

NextClients ==
    \/ \E role \in Endpoints : CallRole(role)
    \/ Attempt

SpecClients == InitClients /\ [][NextClients]_vars

\* ---------------------------------------------------------------------
\* the claims

\* positions at which a background routine exists and has not ended
Executing == {"w_new", "w_wait", "w_plan", "w_round", "w_integrate",
              "w_persist", "w_complete", "w_audit", "w_except", "w_finally"}

RoutinesOf(t) == {w \in Workers : TaskOf(w) = t /\ wpc[w] \in Executing}

\* the responses of start_processing that say the task has been started
AlreadyStarted == {"200_started", "200_processing", "200_completed"}

\* C1: of two start_processing calls that both found the task in
\* ready_for_processing, exactly one wins the compare-and-swap and starts
\* the one background routine; the other gets an already-started response,
\* not an error, and no progress event of the task comes from it.
C1_DuplicateWorkerProtection ==
    \A p, q \in StartReqs :
        (p # q /\ pc[p] = "done" /\ pc[q] = "done"
            /\ ghost[p].cas # "none" /\ ghost[q].cas # "none")
        => /\ {ghost[p].cas, ghost[q].cas} = {"won", "lost"}
           /\ {ghost[p].spawn, ghost[q].spawn} = {"spawned", "none"}
           /\ resp[p] \in AlreadyStarted
           /\ resp[q] \in AlreadyStarted
           /\ \A i \in 1..Len(emitLog[TaskOf(p)]) :
                emitLog[TaskOf(p)][i].by \in
                    {Bg(x) : x \in {y \in {p, q} : ghost[y].cas = "won"}}

\* C2: once the stored status of a task is completed or failed, no step
\* of any request or routine changes it.
C2_TerminalStatusFinal ==
    [][\A t \in Tasks :
          tasks[t].status \in Terminal => tasks'[t].status = tasks[t].status]_vars

\* C3: at most one background routine of a task exists at any time, and a
\* _start_background_task that found the lock held has spawned no routine.
C3_SingleRoutine ==
    \A t \in Tasks :
        /\ Cardinality(RoutinesOf(t)) <= 1
        /\ \A r \in CreateReqs \cup StartReqs :
             (TaskOf(r) = t /\ ghost[r].spawn = "skipped") => wpc[Bg(r)] = "w_none"

\* C3: a _start_background_task that runs while the lock of its task is
\* held leaves every routine as it was and is recorded as skipped.
C3_SkipWhenHeld ==
    [][\A r \in CreateReqs \cup StartReqs :
          (pc[r] \in {"c_spawn", "p_spawn"} /\ pc'[r] = "done"
              /\ LockHeld(TaskOf(r)))
          => (wpc' = wpc /\ ghost'[r].spawn = "skipped")]_vars

\* C3: TaskLock is single-holder: one routine per task at a time, and
\* start_background under a held lock returns without spawning.
C3_TaskLockSingleHolder == []C3_SingleRoutine /\ C3_SkipWhenHeld

\* a start_background was skipped while a routine of the task was running
C3_Witness ==
    \E r \in CreateReqs \cup StartReqs :
        /\ ghost[r].spawn = "skipped"
        /\ RoutinesOf(TaskOf(r)) # {}

\* C4: when the background routine of a task has ended, by success,
\* failure or cancellation, and no other routine of the task exists, the
\* lock of the task is free.
C4_LockReleasedOnEveryExit ==
    \A w \in Workers :
        (wpc[w] = "w_done" /\ RoutinesOf(TaskOf(w)) = {})
        => ~LockHeld(TaskOf(w))

\* C5: at most one submit_answers call wins the compare-and-swap, and no
\* step of a call that lost it changes the task row.
C5_SubmitSerialized ==
    /\ [](Cardinality({r \in SubmitReqs : ghost[r].cas = "won"}) <= 1)
    /\ [][\A r \in SubmitReqs :
            (ghost[r].cas = "lost" /\ pc'[r] # pc[r]) => tasks' = tasks]_vars

\* C6: no step of a submit_answers call whose intermediate_state fails the
\* schema changes the task row or makes an upstream call.
C6_ValidationBeforeSideEffect ==
    [][\A r \in SubmitReqs :
          (loc[r].payload = "invalid" /\ pc'[r] # pc[r])
          => (tasks' = tasks /\ ghost'[r].metaCalls = 0)]_vars

AllDone == \A r \in CreateReqs : pc[r] = "done"
NoFailure == \A r \in CreateReqs : ~ghost[r].rpcErr /\ ~ghost[r].failed
Created == {r \in CreateReqs : resp[r] \in {"201_inquiring", "201_processing"}}
Refused == {r \in CreateReqs : resp[r] = "403"}

\* C7: daily_used never exceeds daily_quota, and when NumCalls > Quota
\* concurrent create-task calls of a user with daily_used = 0 have all
\* returned without a failure, exactly Quota of them succeeded, the others
\* got 403, and daily_used = Quota.
C7_QuotaGate ==
    /\ daily_used <= daily_quota
    /\ (~DISABLE_QUOTA_CHECK /\ AllDone /\ NoFailure)
       => /\ Cardinality(Created) = Quota
          /\ Cardinality(Refused) = NumCalls - Quota
          /\ daily_used = Quota

\* all calls have returned and one was refused by the increment itself,
\* after it had passed the pre-check
C7_Witness ==
    /\ ~DISABLE_QUOTA_CHECK /\ AllDone /\ NoFailure
    /\ \E r \in CreateReqs : resp[r] = "403" /\ ghost[r].incCalls = 1

\* C8: a create-task call whose increment succeeded and whose task
\* creation failed has applied exactly one decrement.
C8_ExactlyOneDecrement ==
    \A r \in CreateReqs :
        (pc[r] = "done" /\ ghost[r].incs = 1 /\ ghost[r].failed)
        => ghost[r].decs = 1

\* C8 as amended: such a call has called decrement_daily_used exactly
\* once, and the decrement was applied unless its rpc failed.
C8_OneDecrementAttempt ==
    \A r \in CreateReqs :
        (pc[r] = "done" /\ ghost[r].incs = 1 /\ ghost[r].failed)
        => /\ ghost[r].decCalls = 1
           /\ resp[r] = "500"
           /\ ghost[r].decs = IF ghost[r].decErr THEN 0 ELSE 1

\* a call incremented, failed in task creation and rolled back
C8_Witness ==
    \E r \in CreateReqs :
        /\ pc[r] = "done" /\ ghost[r].incs = 1 /\ ghost[r].failed
        /\ ghost[r].decs = 1

\* C9: with DISABLE_QUOTA_CHECK set no create-task call calls
\* increment_daily_used or decrement_daily_used, and daily_used keeps its
\* value.
C9_FlagBypassesBothCalls ==
    DISABLE_QUOTA_CHECK
    => /\ \A r \in CreateReqs : ghost[r].incCalls = 0 /\ ghost[r].decCalls = 0
       /\ daily_used = 0

\* C10: without Redis the sequence ids assigned by emit_progress for a
\* task are 0, 1, 2, ... in the order of assignment: the k-th call gets
\* k - 1, whatever the interleaving of the calls, the subscribers and the
\* cleanup.
C10_DenseSequenceIds ==
    ~USE_REDIS =>
        \A t \in Rooms : \A k \in 1..Len(issued[t]) : issued[t][k] = k - 1

\* two emit_progress calls for one task are both in their dispatch loop
C10_Witness ==
    /\ ~USE_REDIS
    /\ \E t \in Rooms :
         /\ Len(issued[t]) >= 2
         /\ \A e \in Emitters :
              epc[e] = "e_send" /\ eloc[e].kind = "progress" /\ eloc[e].task_id = t

\* the progress events of task t in the order they reached sid
ProgressIds(sid, t) ==
    LET IsProgressOf(e) == e.ev = "progress" /\ e.task_id = t
        evs == SelectSeq(received[sid], IsProgressOf)
    IN [i \in 1..Len(evs) |-> evs[i].sequence_id]

\* C11: the progress events of a task reach every subscriber in strictly
\* increasing order of their sequence ids.
C11_SubscriberOrder ==
    \A sid \in Sids, t \in Rooms :
        \A i, j \in 1..Len(ProgressIds(sid, t)) :
            i < j => ProgressIds(sid, t)[i] < ProgressIds(sid, t)[j]

\* no emit_progress call for t is between taking its sequence id and the
\* end of its cache writes, and the cleanup of t has not run
Buffered(t) ==
    /\ cleanup[t] \in {"none", "sleeping"}
    /\ \A e \in Emitters :
         epc[e] \in {"e_lpush", "e_ltrim"} => eloc[e].task_id # t

\* C12: after n emit_progress calls for a task and before its cleanup,
\* get_full_progress returns the min(n, 1000) most recent items, in
\* ascending order of their sequence ids.
C12_FullProgress ==
    \A t \in Rooms :
        Buffered(t) =>
            LET g == get_full_progress(t)
                n == Len(issued[t])
                m == Min(n, PROGRESS_MAXLEN)
            IN /\ Len(g) = m
               /\ \A i \in 1..m : g[i].sequence_id = issued[t][n - m + i]
               /\ \A i, j \in 1..m : i < j => g[i].sequence_id < g[j].sequence_id

\* sid joins task t in this step
Joins(sid, t) == sid \notin connections[t] /\ sid \in connections'[t]

\* C13: in either cache mode, a subscriber that joins a task after its
\* emit_complete and before the 300 s of the cleanup have passed receives
\* the complete event on joining, and one that joins after the cleanup ran
\* does not.
C13_CompletionReplay ==
    [][\A sid \in Sids, t \in Rooms :
          Joins(sid, t) =>
             /\ (t \in completed /\ cleanup[t] \in {"none", "sleeping"})
                => received'[sid] = Append(received[sid], Event("complete", t, 0))
             /\ cleanup[t] \in {"del_seq", "done"}
                => received'[sid] = received[sid]]_vars

\* C14: when the cleanup scheduled by emit_complete has run, the task has
\* no completion cache entry, no progress buffer and no sequence counter.
C14_CleanupEvictsAll ==
    [][\A t \in Rooms :
          (cleanup[t] # "done" /\ cleanup'[t] = "done")
          => /\ t \notin _completion_cache'
             /\ ~CacheHas(_progress_cache', t)
             /\ redis_progress'[t] = <<>>
             /\ ~sequence_counters'[t].present
             /\ redis_seq'[t] = 0]_vars

\* C15: no emit_progress call ends in an exception, whatever join_task
\* and disconnect do while its dispatch loop is suspended.
C15_EmitProgressNeverThrows == "progress" \notin raised

\* C16: the collaboration loop of the background routine calls the Phase-3
\* function at most MAX_COLLABORATION_ROUNDS (10) times, whatever max_rounds
\* the planner chose and whatever the checkers answer, and after the tenth
\* call its next step is the integration, should_stop or not
C16_LoopTerminates ==
    [][/\ phase3_calls' <= MAX_COLLABORATION_ROUNDS
       /\ (phase_pc = "r_loop" /\ phase3_calls = MAX_COLLABORATION_ROUNDS)
             => phase_pc' = "r_integrate"]_vars

\* the routine has made ten Phase-3 calls and goes on to the integration
\* with should_stop still false
C16_Witness ==
    /\ phase_pc = "r_integrate"
    /\ phase3_calls = MAX_COLLABORATION_ROUNDS
    /\ ~state.should_stop

\* C17: in every PhaseState current_round <= max_rounds and max_rounds <= 10,
\* whatever max_rounds the planner returns and whatever the divergence,
\* novelty and improvement checkers answer
C17_RoundsWithinMax ==
    /\ Get(state.current_round, 0) <= Get(state.max_rounds, 3)
    /\ Get(state.max_rounds, 3) <= MAX_COLLABORATION_ROUNDS

\* C18: should_stop is monotone: once it is true in the PhaseState of a task
\* it is true in every later state, across the phases, the stored
\* processing_state and the background routine
C18_ShouldStopMonotone ==
    [][state.should_stop => state'.should_stop]_vars

\* C19: total_cost never decreases from one phase to the next, the hand-off
\* from create_task to submit_answers through the client included
C19_CostNonDecreasing ==
    [][state'.total_cost >= state.total_cost]_vars

\* the entries of trail are the first entries of longer, unchanged
IsPrefix(trail, longer) ==
    /\ Len(trail) <= Len(longer)
    /\ \A i \in 1..Len(trail) : longer[i] = trail[i]

\* C20: the audit trail is append-only and indexed: a step of the pipeline
\* leaves the existing entries unchanged, only appends, and every appended
\* entry has the trail length before its append as its step
C20_AuditAppendOnly ==
    [][/\ IsPrefix(state.audit_trail, state'.audit_trail)
       /\ \A i \in (Len(state.audit_trail) + 1)..Len(state'.audit_trail) :
             state'.audit_trail[i].step = i - 1]_vars

\* the calls of the given kind that routine w made on socket_manager
CallsBy(w, kind) ==
    {i \in 1..Len(emitLog[TaskOf(w)]) :
        emitLog[TaskOf(w)][i].kind = kind /\ emitLog[TaskOf(w)][i].by = w}

\* C21: when an exception was raised inside a background routine and no
\* other routine of the task runs, the routine has left the row in status
\* failed with the error in output, has called emit_error, has re-raised the
\* exception (outcome failed) and, once its finally has run, the lock is free
C21_FailureHandled ==
    \A w \in Workers :
        (wst[w].outcome = "failed" /\ wpc[w] \in {"w_finally", "w_callback", "w_done"}
         /\ RoutinesOf(TaskOf(w)) \subseteq {w})
        => /\ tasks[TaskOf(w)].status = "failed"
           /\ tasks[TaskOf(w)].output = "error"
           /\ CallsBy(w, "error") # {}
           /\ (wpc[w] = "w_done" => ~LockHeld(TaskOf(w)))

\* C22: a cancelled background routine is not handled as a failure: from
\* its cancellation on, no step of the routine changes the status or the
\* output of the task row, and the routine calls neither emit_error nor
\* emit_complete
C22_CancelIsNotFailure ==
    [][\A w \in Workers :
          (wpc'[w] # wpc[w] /\ "cancelled" \in {wst[w].outcome, wst'[w].outcome})
          => /\ tasks'[TaskOf(w)] = tasks[TaskOf(w)]
             /\ CallsBy(w, "error")' = CallsBy(w, "error")
             /\ CallsBy(w, "complete")' = CallsBy(w, "complete")]_vars

\* a routine was cancelled while it ran, has ended, and the row is still
\* in status processing with no error or complete call of the routine
C22_Witness ==
    \E w \in Workers :
        /\ wpc[w] = "w_done"
        /\ wst[w].outcome = "cancelled"
        /\ emitLog[TaskOf(w)] # <<>>
        /\ tasks[TaskOf(w)].status = "processing"
        /\ CallsBy(w, "error") = {} /\ CallsBy(w, "complete") = {}

\* C23: a failure of the bulk insert of the audit rows leaves the task
\* completed: once a routine has called emit_complete, no later step of it
\* changes the status of the row or calls emit_error
C23_AuditFailureKeepsCompleted ==
    [][\A w \in Workers :
          (wpc'[w] # wpc[w] /\ CallsBy(w, "complete") # {})
          => /\ tasks'[TaskOf(w)].status = tasks[TaskOf(w)].status
             /\ CallsBy(w, "error")' = CallsBy(w, "error")]_vars

\* the endpoints in a sequence of endpoints
Among(seq) == {seq[i] : i \in 1..Len(seq)}

\* C24: failover of a role call that has ended: with the primary's circuit
\* open the primary is not invoked and the fallback is tried; otherwise the
\* primary is called first and the fallback after its failure; when the
\* fallback fails the call fails with the all-upstreams-unavailable error;
\* and a call_meta that follows 5 failed meta calls in a row goes to A
C24_Failover ==
    ai_call.stage = "done" =>
        LET role == ai_call.role
            fb == Fallback(role)
        IN  /\ ai_call.primary_open
                 => (ai_call.invoked[1] = fb /\ role \notin Among(ai_call.invoked))
            /\ ~ai_call.primary_open => ai_call.invoked[1] = role
            /\ (~ai_call.primary_open /\ role \in Among(ai_call.failed))
                 => ai_call.invoked = <<role, fb>>
            /\ fb \in Among(ai_call.failed)
                 => ai_call.result = "AllUpstreamsUnavailable"
            /\ (role = "meta" /\ ai_call.streak0 >= CIRCUIT_THRESHOLD)
                 => ai_call.invoked[1] = "a"

\* C25: a chat call that succeeds leaves the consecutive-failure counter of
\* its endpoint at 0, a chat call that fails leaves it one above its value
\* before the call, and the circuit is open exactly when the counter is >= 5
C25_CircuitCounter ==
    /\ last_chat.endpoint # "none"
         => /\ last_chat.raised = "none" => last_chat.count1 = 0
            /\ last_chat.raised # "none" => last_chat.count1 = last_chat.count0 + 1
    /\ \A e \in Endpoints : is_circuit_open(failure_count[e]) <=> failure_count[e] >= 5

\* C26: a chat call repeats its upstream request after a transport error,
\* up to MAX_RETRIES (3) requests with a sleep of 1 s x 2^attempt between
\* them, and makes no further request after any other error
C26_RetryPolicy ==
    last_chat.endpoint # "none" =>
        LET u == last_chat.upstreams
            n == Len(u)
        IN  /\ u[n] \in TransportErrors => n = MAX_RETRIES
            /\ \A i \in 1..(n - 1) : u[i] \in TransportErrors
            /\ last_chat.sleeps = [i \in 1..(n - 1) |-> RETRY_DELAY * (2 ^ (i - 1))]

\* the keys of the state that the claim lets the payload influence
Influenced == {"provided_info", "missing_info", "audit_trail", "total_cost"}

\* the intermediate_state bodies that submit_answers accepts for the state
\* that create_task returned
Accepted(s) ==
    {echo \in Echoes(IntermediateState(s)) :
        extra_forbid(echo) /\ validate_cost(echo.total_cost)}

\* C27: task_id, user_id, scene and user_input of the PhaseState (rebuilt
\* and persisted as processing_state) equal the task row's values, and any
\* two intermediate_state payloads submitted for the task give states that
\* differ at most in provided_info, missing_info, audit_trail and total_cost
C27_IdentityFromRow ==
    /\ \A k \in IdentityKeys : state[k] = TaskRow[k]
    /\ phase_pc = "inquiring" =>
         \A e1, e2 \in Accepted(state) :
            \A outcome \in {"skipped", "understood", "failed"}, cost \in CallCost :
               LET s1 == phase1_process_answers(rebuild_state(e1), outcome, cost)
                   s2 == phase1_process_answers(rebuild_state(e2), outcome, cost)
               IN  \A k \in (DOMAIN s1) \ Influenced : s1[k] = s2[k]

\* a payload that differs from the state create_task returned was accepted
\* and the rebuilt state was stored
C27_Witness ==
    /\ phase_pc = "r_plan"
    /\ state.provided_info = "forged"
    /\ state.audit_trail # <<>>
    /\ state.audit_trail[1] = Forged[1]
    /\ \A k \in IdentityKeys : state[k] = TaskRow[k]

\* C28: when meta returned n questions, phase1_generate_inquiry produces 3
\* inquiry questions for n < 3, n for 3 <= n <= 5, and 5 for n > 5
C28_QuestionClamp ==
    state.questions # Absent =>
        state.inquiry_questions =
            (IF state.questions < 3 THEN 3
             ELSE IF state.questions > 5 THEN 5
             ELSE state.questions)

\* C29: a submit_answers call with an empty answer map makes no upstream
\* call in phase1_process_answers, appends exactly one "skipped" audit
\* entry to the trail of the rebuilt state, sets need_inquiry to false and
\* leaves collected_info and total_cost of the rebuilt state as they were
C29_UserSkip ==
    [][(phase_pc = "inquiring" /\ phase_pc' = "r_plan" /\ answers' = "empty")
          => /\ phase1_calls' = phase1_calls
             /\ state'.need_inquiry = FALSE
             /\ \E echo \in Accepted(state) :
                   LET s0 == rebuild_state(echo)
                   IN  /\ Len(state'.audit_trail) = Len(s0.audit_trail) + 1
                       /\ IsPrefix(s0.audit_trail, state'.audit_trail)
                       /\ state'.audit_trail[Len(state'.audit_trail)].phase = "skipped"
                       /\ state'.collected_info = s0.collected_info
                       /\ state'.total_cost = s0.total_cost
                       /\ state'.provided_info = s0.provided_info
                       /\ state'.missing_info = s0.missing_info]_vars

\* an empty answer map was submitted with a state that has a cost, and the
\* state was stored with one "skipped" entry and no upstream call
C29_Witness ==
    /\ phase_pc = "r_plan"
    /\ answers = "empty"
    /\ phase1_calls = 0
    /\ state.total_cost > 0
    /\ state.audit_trail # <<>>
    /\ state.audit_trail[Len(state.audit_trail)].phase = "skipped"

\* the submit_answers call was answered 200 for an empty answer map (it
\* made no call for answer extraction), and a start_processing call follows
SkipSubmitted ==
    /\ resp[<<"submit", 1>>] = "200"
    /\ ghost[<<"submit", 1>>].metaCalls = 0
    /\ tasks[1].status = "ready_for_processing"
    /\ \E r \in StartReqs : pc[r] = "p_init"

\* an upstream call or a store call of a routine of task 1 failed, or the
\* routine was cancelled
PathFailure ==
    \E w \in Workers :
        /\ TaskOf(w) = 1
        /\ wpc[w] = "w_except" \/ wst[w].outcome \in {"failed", "cancelled"}

\* C30: after create_task returned inquiring, submit_answers({}) and then
\* start_processing, the task reaches status completed unless an upstream
\* call or the store fails, and the empty answer map makes no meta call for
\* answer extraction
C30_InquiryPathCompletes ==
    /\ [](loc[<<"submit", 1>>].payload = "skip"
            => ghost[<<"submit", 1>>].metaCalls = 0)
    /\ SkipSubmitted ~> (tasks[1].status = "completed" \/ PathFailure)

\* the task was completed on the inquiry path by a routine that met no
\* failure, and no call for answer extraction was made
C30_Witness ==
    /\ tasks[1].status = "completed"
    /\ tasks[1].collected_info = "empty"
    /\ resp[<<"submit", 1>>] = "200"
    /\ ghost[<<"submit", 1>>].metaCalls = 0
    /\ \E w \in Workers :
          TaskOf(w) = 1 /\ wpc[w] = "w_done" /\ wst[w].outcome = "ok"

\* positions of the task inside create_task (workflow.ainvoke and the reply)
Foreground == {"evaluate", "generate_inquiry", "inquiring", "planning",
               "collaborate"}

\* C31: create_task runs only evaluation and inquiry generation; planning
\* and every collaboration round are run by the background routine alone,
\* so no round runs before the routine is started and planning runs exactly
\* once per task
C31_ForegroundPrelude ==
    /\ workflow_rounds = 0
    /\ phase_pc \in Foreground => phase2_calls = 0
    /\ phase2_calls <= 1
    /\ phase_pc = "done" => phase2_calls = 1

\* emit_complete has been called for task t
CompletePublished(t) ==
    \E i \in 1..Len(emitLog[t]) : emitLog[t][i].kind = "complete"

\* C32: the complete event of a task is published only after its row holds
\* status completed and the final output, and from then on the row reads
\* completed
C32_PublishedAfterPersisted ==
    \A t \in Tasks :
        CompletePublished(t) =>
            tasks[t].status = "completed" /\ tasks[t].output = "final"

\* C33: when the reply of a round's meta checker is no JSON or lacks the
\* expected boolean, the divergence check counts as significant divergence
\* (the collaboration goes on) and the novelty and the improvement checks
\* count as no novelty and no improvement needed (the collaboration stops)
C33_ConservativeDefaults ==
    phase_call.reply \in {"non_json", "off_schema"} =>
        phase_call.go_on = (phase_call.checker = "divergence")

\* C34: when the upstream call of a phase returned with cost c and the
\* phase fell back to its default because the reply could not be parsed,
\* total_cost of the PhaseState has increased by c
C34_CostSurvivesDefaults ==
    [][(phase_pc # "inquiring" /\ phase_call'.outcome = "unparsed")
          => state'.total_cost = state.total_cost + phase_call'.cost]_vars

\* C36: a collaboration round runs the debate variant when the state's
\* collaboration_mode is "debate" and the review variant for every other
\* value
C36_RoutingAfterPlanning ==
    (phase_call.phase = "collaboration" /\ phase_call.variant # "none") =>
        phase_call.variant =
            (IF state.collaboration_mode = "debate" THEN "debate" ELSE "review")

\* ---------------------------------------------------------------------
\* the specification of the debate rounds of one task

InitDebateRound ==
    /\ InitCommon
    /\ USE_REDIS_LOCK = FALSE
    /\ DISABLE_QUOTA_CHECK = FALSE
    /\ patience = StopBy
    /\ pc = [r \in Requests |-> "absent"]
    /\ InitSock
    /\ USE_REDIS = FALSE
    /\ InitPhaseAt("absent")
    /\ InitAI
    /\ InitRound

NextDebateRound ==
    \/ InvokeA
    \/ ReturnA
    \/ ReturnB
    \/ ReturnMeta
    \/ EmitA
    \/ EmitB

SpecDebateRound == InitDebateRound /\ [][NextDebateRound]_vars

Invoked(role) == \E i \in 1..Len(round_log) : round_log[i] = Invoke(role)

Returned(role) == \E i \in 1..Len(round_log) : round_log[i] = Return(role)

\* C35: in a debate round the call of B is in flight before the call of
\* A has returned (while A's call is awaited B's call has been invoked),
\* and the checker of the round is invoked only after both have returned
C35_ConcurrentDebaters ==
    /\ "ai_a" \in in_flight => Invoked("ai_b")
    /\ Invoked("meta") => Returned("ai_a") /\ Returned("ai_b")

\* the longest prefix of the text whose encoding fits in n bytes
LongestPrefix(p, t, n) ==
    /\ IsPrefix(p, t)
    /\ Len(encode(p)) <= n
    /\ Len(p) < Len(t) => Len(encode(p)) + t[Len(p) + 1] > n

\* C37: the content of every ai_message event of A and of B is at most
\* 500 bytes in UTF-8 and is the longest prefix of the role's text that
\* fits in 500 bytes, so it ends on a code-point boundary of the text
C37_MessageWithinLimit ==
    \A m \in ai_message :
        /\ Len(encode(m.content)) <= AI_MESSAGE_BYTES
        /\ LongestPrefix(m.content, m.text, AI_MESSAGE_BYTES)

\* truncate_utf8 by itself returns the longest prefix that fits
TruncateLongestPrefix ==
    \A m \in ai_message :
        LongestPrefix(truncate_utf8(m.text, AI_MESSAGE_BYTES), m.text,
                      AI_MESSAGE_BYTES)

\* the progress values routine w emitted for its task, in order
ProgressBy(w) ==
    LET calls == SelectSeq(emitLog[TaskOf(w)],
                           LAMBDA c : c.kind = "progress" /\ c.by = w)
    IN  [i \in 1..Len(calls) |-> calls[i].progress]

\* routine w got past phase5_integration and its progress call: it is at
\* the update of the row or has called emit_complete
Succeeded(w) ==
    \/ wpc[w] \in {"w_persist", "w_complete", "w_audit"}
    \/ \E i \in 1..Len(emitLog[TaskOf(w)]) :
           emitLog[TaskOf(w)][i] = Call("complete", 0, w)

C39_NoDecrementWithoutIncrement ==
    \A r \in CreateReqs : ghost[r].decs <= ghost[r].incs

Once(seq) == \A i, j \in 1..Len(seq) : i # j => seq[i] # seq[j]

\* C40: one role call invokes no endpoint twice (the primary at most once
\* and the fallback at most once), and no endpoint's chat fails twice in
\* it, so the call raises any failure counter by at most 1
C40_EndpointOncePerCall ==
    /\ Once(ai_call.invoked)
    /\ Once(ai_call.failed)

====
